---- MODULE Spec2Model ----
(***************************************************************************)
(* Two-voice counterpoint search of my_project.counterpoint: the pitch and *)
(* interval arithmetic, the move generators, the measure and piece         *)
(* validators and the state machine of counterpoint/state.py.              *)
(***************************************************************************)
EXTENDS Integers, Sequences, FiniteSets, TLC

VARIABLES state, raised, randomized, pending, yielded, pruned_seen,
          iterables, active_iterators, cursor, output

vars == <<state, raised, randomized, pending, yielded, pruned_seen,
          iterables, active_iterators, cursor, output>>

\* The variables of util.shuffled_interleave run on its own
interleave_vars == <<iterables, active_iterators, cursor, output>>

\* Python's None, for Pitch | None, AnnotatedMeasure | None, LocalMeasureContext | None.
NONE == [none |-> TRUE]

(***************************************************************************)
(* my_project/model.py: pitches and intervals                              *)
(***************************************************************************)

\* Pitch(octave, note_name): octave moves and fifth moves from C4.
Pitch(o, n) == [octave |-> o, note_name |-> n]

Interval(o, f) == [octave |-> o, fifth |-> f]

\* NoteName._STEP_TO_BASE_FIFTH
STEP_TO_BASE_FIFTH(step) ==
    CASE step = "C" -> 0
      [] step = "D" -> 2
      [] step = "E" -> 4
      [] step = "F" -> -1
      [] step = "G" -> 1
      [] step = "A" -> 3
      [] step = "B" -> 5

\* Pitch._STEP_TO_BASE_OCTAVE
STEP_TO_BASE_OCTAVE(step) ==
    CASE step = "C" -> 0
      [] step = "D" -> -1
      [] step = "E" -> -2
      [] step = "F" -> 1
      [] step = "G" -> 0
      [] step = "A" -> -1
      [] step = "B" -> -2

\* Pitch.parse on the literal <step><alter><octave>, e.g. PitchParse("C", 0, 4) for "C4".
PitchParse(step, alter, octave) ==
    Pitch(STEP_TO_BASE_OCTAVE(step) + alter * (-4) + octave - 4,
          STEP_TO_BASE_FIFTH(step) + alter * 7)

\* Pitch.__add__
PitchAdd(p, i) == Pitch(p.octave + i.octave, p.note_name + i.fifth)

\* Pitch.__sub__: self - other
PitchSub(self, other) ==
    Interval(self.octave - other.octave, self.note_name - other.note_name)

\* Interval.of(base, target)
IntervalOf(base, target) ==
    Interval(target.octave - base.octave, target.note_name - base.note_name)

\* Pitch.num: the sounding height in semitones (an octave is 12, a fifth is 7).
Num(p) == 12 * p.octave + 7 * p.note_name + 60

\* Interval.step, as an IntervalStep value (unison = 0)
IntervalStepOf(i) == 4 * i.fifth + 7 * i.octave

\* IntervalStep.idx_1
IdxStep(value) == IF value >= 1 THEN value - 1 ELSE value + 1

Abs(n) == IF n < 0 THEN -n ELSE n

\* Interval.alter with the quality's sign taken from the fifths alone
IntervalAlterOf_unsigned(i) ==
    LET abs_fifth == Abs(i.fifth)
        sgn == IF i.fifth < 0 THEN -1 ELSE 1
    IN  IF abs_fifth <= 1 THEN 0
        ELSE IF abs_fifth <= 5 THEN sgn * 1
        ELSE sgn * (2 + ((abs_fifth - 6) \div 7))

\* Interval.alter
IntervalAlterOf(i) ==
    LET abs_fifth == Abs(i.fifth)
        step_sgn == IF IntervalStepOf(i) < 0 THEN -1 ELSE 1
        fifth_sgn == IF i.fifth < 0 THEN -1 ELSE 1
        sgn == step_sgn * fifth_sgn
    IN  IF abs_fifth <= 1 THEN 0
        ELSE IF abs_fifth <= 5 THEN sgn * 1
        ELSE sgn * (2 + ((abs_fifth - 6) \div 7))

\* The ValueError of Interval.from_step_alter, as a value no interval equals.
INVALID_INTERVAL == [error |-> "ValueError"]

\* Interval.from_step_alter
FromStepAlter(s, a) ==
    LET f_class == (2 * s) % 7
        step_sgn == IF s < 0 THEN -1 ELSE 1
        f_base_sharp == ((f_class - 6) % 7) + 6
        f_base_flat == ((f_class - 2) % 7) - 12
        ok == CASE a = 0 -> f_class \in {0, 1, 6}
                [] a = 1 -> f_class \in {2, 3, 4, 5}
                [] a = -1 -> f_class \in {2, 3, 4, 5}
                [] OTHER -> TRUE
        f == CASE a = 0 -> (IF f_class = 0 THEN 0 ELSE IF f_class = 1 THEN 1 ELSE -1)
               [] a = 1 -> (IF step_sgn = 1 THEN f_class ELSE f_class - 7)
               [] a = -1 -> (IF step_sgn = 1 THEN f_class - 7 ELSE f_class)
               [] a >= 2 -> (IF step_sgn = 1 THEN f_base_sharp + 7 * (a - 2)
                                             ELSE f_base_flat - 7 * (a - 2))
               [] OTHER -> (IF step_sgn = 1 THEN f_base_flat - 7 * (-a - 2)
                                            ELSE f_base_sharp + 7 * (-a - 2))
    IN  IF ok THEN Interval((s - 4 * f) \div 7, f) ELSE INVALID_INTERVAL

\* Interval.parse on the literal <sign><quality><number>: the quality is given as
\* its IntervalAlter (P 0, M 1, m -1, A 2, d -2), the sign as 1 or -1.
IntervalParse(sgn, alter, num) == FromStepAlter((num - 1) * sgn, alter)

\* Interval.normalize
Normalize(i) ==
    LET step == IntervalStepOf(i)
        alter == IntervalAlterOf(i)
        new_step == IF step = 0 THEN 0
                    ELSE IF step > 0 THEN step % 7
                    ELSE (-1 * step) % 7
    IN  FromStepAlter(new_step, alter)

\* Interval.abs: the interval between the same two pitches, taken upward.
IntervalAbs(i) == IF IntervalStepOf(i) < 0 THEN Interval(-i.octave, -i.fifth) ELSE i

P1 == IntervalParse(1, 0, 1)
P4 == IntervalParse(1, 0, 4)
P5 == IntervalParse(1, 0, 5)
P8 == IntervalParse(1, 0, 8)
P12 == IntervalParse(1, 0, 12)
P15 == IntervalParse(1, 0, 15)
m2 == IntervalParse(1, -1, 2)
M2 == IntervalParse(1, 1, 2)
m3 == IntervalParse(1, -1, 3)
M3 == IntervalParse(1, 1, 3)
m6 == IntervalParse(1, -1, 6)
d5 == IntervalParse(1, -2, 5)

(***************************************************************************)
(* my_project/util.py and counterpoint/model.py                            *)
(***************************************************************************)

\* KEY = Key(tonic=NoteName.parse("C"), mode=Mode.MAJOR)
KEY == [tonic |-> STEP_TO_BASE_FIFTH("C"), mode |-> "Major"]

\* Mode.offset
ModeOffset(mode) == IF mode = "Major" THEN 0 ELSE -3

NOTES_IN_MEASURE == 4

MEASURE_TOTAL_DURATION == NOTES_IN_MEASURE

\* RythmnType.note_duration
NoteDuration(rythmn_type) ==
    CASE rythmn_type = "QUATER_NOTE" -> 1
      [] rythmn_type = "HALF_NOTE" -> 2
      [] rythmn_type = "WHOLE_NOTE" -> 4

RythmnTypes == {"QUATER_NOTE", "HALF_NOTE", "WHOLE_NOTE"}

\* part_range(PartId.SOPRANO), the range of REALIZE_PART_ID
SopranoRange == <<PitchParse("C", 0, 4), PitchParse("A", 0, 5)>>

\* The major scale of scale_pitches, written from C4.
MajorScale ==
    <<PitchParse("C", 0, 4), PitchParse("D", 0, 4), PitchParse("E", 0, 4),
      PitchParse("F", 0, 4), PitchParse("G", 0, 4), PitchParse("A", 0, 4),
      PitchParse("B", 0, 4)>>

\* The loops of scale_pitches: octave idx \div 7 of the shifted scale, degree
\* idx % 7; pitches below min are skipped, the first one above max ends both loops.
RECURSIVE ScaleFrom(_, _, _, _)
ScaleFrom(scale, min, max, idx) ==
    LET p == Pitch((idx \div 7) + scale[(idx % 7) + 1].octave,
                   scale[(idx % 7) + 1].note_name)
    IN  IF Num(max) < Num(p) THEN << >>
        ELSE IF Num(p) < Num(min) THEN ScaleFrom(scale, min, max, idx + 1)
        ELSE <<p>> \o ScaleFrom(scale, min, max, idx + 1)

\* scale_pitches(key, range) for a major key
scale_pitches(key, range) ==
    LET min == range[1]
        max == range[2]
        key_p == Pitch(((min.note_name - key.tonic) * 7 + min.octave * 12) \div 12,
                       key.tonic)
        scale == [k \in 1..7 |->
                    Pitch(key_p.octave + MajorScale[k].octave,
                          key_p.note_name + MajorScale[k].note_name)]
    IN  ScaleFrom(scale, min, max, 0)

\* Degree.from_note_name_key; round((r - m - 2) / 7) is (2x + 7) \div 14 for x = r - m - 2
DegreeFromNoteNameKey(note_name, key) ==
    LET r == note_name - key.tonic
        m == ModeOffset(key.mode)
        alter == (2 * (r - m - 2) + 7) \div 14
        r_0 == r - 7 * alter
    IN  [step |-> (4 * r_0) % 7, alter |-> alter]

\* Degree.note_name
DegreeNoteName(degree, key) ==
    LET m == ModeOffset(key.mode)
        r_0_candidate == (2 * degree.step) % 7
        r_0 == IF -1 + m <= r_0_candidate /\ r_0_candidate <= 5 + m
                 THEN r_0_candidate
               ELSE IF -1 + m <= r_0_candidate - 7 /\ r_0_candidate - 7 <= 5 + m
                 THEN r_0_candidate - 7
               ELSE r_0_candidate + 7
    IN  key.tonic + r_0 + 7 * degree.alter

\* add_interval_step_in_key(key, pitch, interval_step)
add_interval_step_in_key(key, pitch, interval_step) ==
    LET start_degree == DegreeFromNoteNameKey(pitch.note_name, key)
        target_degree == [step |-> (start_degree.step + interval_step) % 7,
                          alter |-> start_degree.alter]
        target_note_name == DegreeNoteName(target_degree, key)
        fifth_diff == target_note_name - pitch.note_name
        octave_diff == (interval_step - 4 * fifth_diff) \div 7
    IN  PitchAdd(pitch, Interval(octave_diff, fifth_diff))

\* sliding(input_list, window_size): the start indices of the windows
SlidingStarts(input_list, window_size) == 1..(Len(input_list) - window_size + 1)

\* Mutant of make_annotated_note: every note is tagged as a harmonic tone
make_annotated_note_all_harmonic(pitch, tone_type, duration) ==
    [note |-> [pitch |-> pitch, duration |-> duration], tone_type |-> "HARMONIC_TONE"]

\* make_annotated_note(pitch, tone_type, duration)
make_annotated_note(pitch, tone_type, duration) ==
    [note |-> [pitch |-> pitch, duration |-> duration], tone_type |-> tone_type]

\* AnnotatedMeasure(annotated_notes)
AnnotatedMeasure(annotated_notes) == [annotated_notes |-> annotated_notes]

RECURSIVE SumDurations(_)
SumDurations(notes) ==
    IF notes = << >> THEN 0
    ELSE notes[1].note.duration + SumDurations(Tail(notes))

\* The onset of the k-th note of a note list
OnsetOf(notes, k) == SumDurations(SubSeq(notes, 1, k - 1))

\* AnnotatedMeasure.offset_notes: the onsets (keys) of the notes
OffsetNoteKeys(measure) ==
    {OnsetOf(measure.annotated_notes, k) : k \in 1..Len(measure.annotated_notes)}

\* AnnotatedMeasure.offset_notes: a later note at the same onset replaces an earlier one
OffsetNoteValue(measure, offset) ==
    LET ks == {k \in 1..Len(measure.annotated_notes) :
                 OnsetOf(measure.annotated_notes, k) = offset}
    IN  measure.annotated_notes[CHOOSE k \in ks : \A j \in ks : j <= k]

\* AnnotatedMeasure.offset_note_at: the (onset, note) pair, NONE on a rest, and the
\* ValueError for an offset outside the measure
OFFSET_OUT_OF_BOUNDS == [error |-> "ValueError"]

\* Mutant of AnnotatedMeasure.offset_note_at: a note is found only after its onset
offset_note_at_after_onset(measure, offset) ==
    LET notes == measure.annotated_notes
        ks == {k \in 1..Len(notes) :
                 OnsetOf(notes, k) < offset /\ offset <= OnsetOf(notes, k + 1)}
    IN  IF ks = {} THEN OFFSET_OUT_OF_BOUNDS
        ELSE LET k == CHOOSE j \in ks : \A l \in ks : j <= l
             IN  IF notes[k].note.pitch = NONE THEN NONE
                 ELSE [onset |-> OnsetOf(notes, k), annotated_note |-> notes[k]]

offset_note_at(measure, offset) ==
    LET notes == measure.annotated_notes
        ks == {k \in 1..Len(notes) :
                 OnsetOf(notes, k) <= offset /\ offset < OnsetOf(notes, k + 1)}
    IN  IF ks = {} THEN OFFSET_OUT_OF_BOUNDS
        ELSE LET k == CHOOSE j \in ks : \A l \in ks : j <= l
             IN  IF notes[k].note.pitch = NONE THEN NONE
                 ELSE [onset |-> OnsetOf(notes, k), annotated_note |-> notes[k]]

\* AVAILABLE_PITCHES_LIST = scale_pitches(KEY, part_range(REALIZE_PART_ID))
AVAILABLE_PITCHES_LIST == scale_pitches(KEY, SopranoRange)

AVAILABLE_PITCHES_SET == {AVAILABLE_PITCHES_LIST[k] : k \in 1..Len(AVAILABLE_PITCHES_LIST)}

(***************************************************************************)
(* counterpoint/context.py: LocalMeasureContext and GlobalContext          *)
(***************************************************************************)

\* A raised exception, as the value of an operation that does not return.
Raise(name) == [error |-> name]

IsRaise(v) == DOMAIN v = {"error"}

\* is_root_chord: bool | None, as "True", "False" and "None"
ROOT_CHORD_NONE == "None"

\* LocalMeasureContext.total_note_buffer_duration
total_note_buffer_duration(local_ctx) == SumDurations(local_ctx.note_buffer)

\* LocalMeasureContext.is_buffer_fulfilled
is_buffer_fulfilled(local_ctx) ==
    total_note_buffer_duration(local_ctx) = MEASURE_TOTAL_DURATION

\* LocalMeasureContext.__post_init__: the assertions of construction
LocalMeasureContextPostInit(local_ctx) ==
    /\ local_ctx.is_first_measure = (local_ctx.previous_cf = NONE)
    /\ (local_ctx.previous_cf = NONE) = (local_ctx.previous_measure = NONE)
    /\ local_ctx.is_last_measure = (local_ctx.next_measure_cf = NONE)
    /\ local_ctx.is_next_last_measure => local_ctx.next_measure_cf # NONE
    /\ total_note_buffer_duration(local_ctx) <= MEASURE_TOTAL_DURATION

\* LocalMeasureContext.current_offset, where it returns
current_offset(local_ctx) == total_note_buffer_duration(local_ctx)

\* LocalMeasureContext.current_offset: the guard of its ValueError
CurrentOffsetRaises(local_ctx) ==
    total_note_buffer_duration(local_ctx) \notin {0, 1, 2, 3}

\* Mutant of previous_latest_added_pitch: the previous measure is never read
previous_latest_added_pitch_buffer_only(local_ctx) ==
    LET buf == local_ctx.note_buffer
    IN  IF Len(buf) > 0 /\ buf[Len(buf)].note.pitch # NONE
          THEN buf[Len(buf)].note.pitch
        ELSE Raise("ValueError")

\* LocalMeasureContext.previous_latest_added_pitch: a non-empty buffer ending in a
\* rest falls through to the ValueError, the previous measure is read only when the
\* buffer is empty
previous_latest_added_pitch(local_ctx) ==
    LET buf == local_ctx.note_buffer
        prev == local_ctx.previous_measure
    IN  IF Len(buf) > 0
          THEN IF buf[Len(buf)].note.pitch # NONE THEN buf[Len(buf)].note.pitch
               ELSE Raise("ValueError")
        ELSE IF prev # NONE
                /\ prev.annotated_notes[Len(prev.annotated_notes)].note.pitch # NONE
          THEN prev.annotated_notes[Len(prev.annotated_notes)].note.pitch
        ELSE Raise("ValueError")

\* GlobalContext.new_global_context
new_global_context(cantus_firmus, rythmn_type) ==
    [cantus_firmus |-> cantus_firmus,
     rythmn_type |-> rythmn_type,
     completed_measures |-> << >>,
     next_measure_mark |-> NONE]

\* GlobalContext.__post_init__
GlobalContextPostInit(global_ctx) ==
    /\ Len(global_ctx.cantus_firmus) > 0
    /\ Len(global_ctx.completed_measures) <= Len(global_ctx.cantus_firmus)

\* Mutant of GlobalContext.local_ctx_appended: the mark of the measure is dropped
local_ctx_appended_mark_dropped(global_ctx, local_ctx) ==
    [global_ctx EXCEPT
       !.completed_measures = Append(@, AnnotatedMeasure(local_ctx.note_buffer)),
       !.next_measure_mark = NONE]

\* GlobalContext.local_ctx_appended
local_ctx_appended(global_ctx, local_ctx) ==
    [global_ctx EXCEPT
       !.completed_measures = Append(@, AnnotatedMeasure(local_ctx.note_buffer)),
       !.next_measure_mark = local_ctx.next_measure_mark]

\* Mutant of is_measures_fulfilled: the count is off by one
is_measures_fulfilled_one_short(global_ctx) ==
    Len(global_ctx.completed_measures) >= Len(global_ctx.cantus_firmus) - 1

\* GlobalContext.is_measures_fulfilled
is_measures_fulfilled(global_ctx) ==
    Len(global_ctx.completed_measures) = Len(global_ctx.cantus_firmus)

\* GlobalContext._is_first_measure
is_first_measure_of(global_ctx) == Len(global_ctx.completed_measures) = 0

\* GlobalContext._is_last_measure
is_last_measure_of(global_ctx) ==
    Len(global_ctx.completed_measures) = Len(global_ctx.cantus_firmus) - 1

\* Mutant of GlobalContext._is_next_last_measure: the last measure is taken for the
\* one before it
is_next_last_measure_of_last(global_ctx) ==
    Len(global_ctx.completed_measures) = Len(global_ctx.cantus_firmus) - 1

\* GlobalContext._is_next_last_measure
is_next_last_measure_of(global_ctx) ==
    Len(global_ctx.completed_measures) = Len(global_ctx.cantus_firmus) - 2

\* GlobalContext._previous_measure
previous_measure_of(global_ctx) ==
    IF is_first_measure_of(global_ctx) THEN NONE
    ELSE global_ctx.completed_measures[Len(global_ctx.completed_measures)]

\* GlobalContext._previous_cf
previous_cf_of(global_ctx) ==
    IF is_first_measure_of(global_ctx) THEN NONE
    ELSE global_ctx.cantus_firmus[Len(global_ctx.completed_measures)]

\* GlobalContext._current_cf
current_cf_of(global_ctx) ==
    global_ctx.cantus_firmus[Len(global_ctx.completed_measures) + 1]

\* GlobalContext._next_measure_cf
next_measure_cf_of(global_ctx) ==
    IF is_last_measure_of(global_ctx) THEN NONE
    ELSE global_ctx.cantus_firmus[Len(global_ctx.completed_measures) + 2]

\* GlobalContext.new_local_measure_countext
new_local_measure_countext(global_ctx) ==
    [previous_measure |-> previous_measure_of(global_ctx),
     previous_cf |-> previous_cf_of(global_ctx),
     current_cf |-> current_cf_of(global_ctx),
     next_measure_cf |-> next_measure_cf_of(global_ctx),
     rythmn_type |-> global_ctx.rythmn_type,
     is_first_measure |-> is_first_measure_of(global_ctx),
     is_last_measure |-> is_last_measure_of(global_ctx),
     is_next_last_measure |-> is_next_last_measure_of(global_ctx),
     note_buffer |-> << >>,
     is_root_chord |-> ROOT_CHORD_NONE,
     next_measure_mark |-> global_ctx.next_measure_mark]

(***************************************************************************)
(* counterpoint/search_common.py                                           *)
(***************************************************************************)

\* The concatenation of a list of lists, in order
RECURSIVE Flatten(_)
Flatten(lists) ==
    IF lists = << >> THEN << >> ELSE lists[1] \o Flatten(Tail(lists))

\* Mutant of step_and_next_chord_dict: the 4th is a key as long as no chord is chosen
HarmonicChordSteps_with_4th(is_root_chord) ==
    CASE is_root_chord = "None" ->
           {IdxStep(1), IdxStep(3), IdxStep(4), IdxStep(5), IdxStep(6)}
      [] is_root_chord = "True" -> {IdxStep(1), IdxStep(3), IdxStep(5)}
      [] OTHER -> {IdxStep(1), IdxStep(3), IdxStep(6)}

\* step_and_next_chord_dict of available_harmonic_pitches_with_chord: its keys
HarmonicChordSteps(is_root_chord) ==
    CASE is_root_chord = "None" -> {IdxStep(1), IdxStep(3), IdxStep(5), IdxStep(6)}
      [] is_root_chord = "True" -> {IdxStep(1), IdxStep(3), IdxStep(5)}
      [] OTHER -> {IdxStep(1), IdxStep(3), IdxStep(6)}

\* Mutant of step_and_next_chord_dict: a 5th or a 6th does not commit the chord
HarmonicNextChord_never_commits(is_root_chord, step) ==
    CASE is_root_chord = "None" -> "None"
      [] is_root_chord = "True" -> "True"
      [] OTHER -> "False"

\* step_and_next_chord_dict of available_harmonic_pitches_with_chord: its values
HarmonicNextChord(is_root_chord, step) ==
    CASE is_root_chord = "None" ->
           (IF step = IdxStep(5) THEN "True"
            ELSE IF step = IdxStep(6) THEN "False" ELSE "None")
      [] is_root_chord = "True" -> "True"
      [] OTHER -> "False"

\* The pitches of the range at or above the cantus firmus, less than two octaves away
PitchesAbove(cf) ==
    SelectSeq(AVAILABLE_PITCHES_LIST,
              LAMBDA pitch : Num(cf) <= Num(pitch)
                             /\ IntervalStepOf(IntervalOf(cf, pitch)) <= IdxStep(15))

\* available_harmonic_pitches_with_chord(local_ctx): the list of (pitch, chord) pairs
available_harmonic_pitches_with_chord(local_ctx) ==
    LET cf == local_ctx.current_cf
        kept == SelectSeq(PitchesAbove(cf),
                  LAMBDA pitch : IntervalStepOf(Normalize(IntervalOf(cf, pitch)))
                                   \in HarmonicChordSteps(local_ctx.is_root_chord))
    IN  [k \in 1..Len(kept) |->
           [pitch |-> kept[k],
            chord |-> HarmonicNextChord(local_ctx.is_root_chord,
                        IntervalStepOf(Normalize(IntervalOf(cf, kept[k]))))]]

\* Mutant of start_available_pitches: the candidates are not limited to the range
start_available_pitches_unfiltered(local_ctx, cf) ==
    <<PitchAdd(cf, P1), PitchAdd(cf, P5), PitchAdd(cf, P8),
      PitchAdd(cf, P12), PitchAdd(cf, P15)>>

\* start_available_pitches(local_ctx, cf)
start_available_pitches(local_ctx, cf) ==
    SelectSeq(<<PitchAdd(cf, P1), PitchAdd(cf, P5), PitchAdd(cf, P8),
                PitchAdd(cf, P12), PitchAdd(cf, P15)>>,
              LAMBDA pitch : pitch \in AVAILABLE_PITCHES_SET)

\* Mutant of end_available_pitches: the fifths of the start note are offered too
end_available_pitches_with_fifths(local_ctx, cf) ==
    SelectSeq(<<PitchAdd(cf, P1), PitchAdd(cf, P5), PitchAdd(cf, P8),
                PitchAdd(cf, P12), PitchAdd(cf, P15)>>,
              LAMBDA pitch : pitch \in AVAILABLE_PITCHES_SET)

\* end_available_pitches(local_ctx, cf)
end_available_pitches(local_ctx, cf) ==
    SelectSeq(<<PitchAdd(cf, P1), PitchAdd(cf, P8), PitchAdd(cf, P15)>>,
              LAMBDA pitch : pitch \in AVAILABLE_PITCHES_SET)

\* available_pitches(local_ctx, cf)
available_pitches(local_ctx, cf) ==
    SelectSeq(PitchesAbove(cf),
              LAMBDA pitch : IntervalStepOf(Normalize(IntervalOf(cf, pitch)))
                               \in {IdxStep(1), IdxStep(3), IdxStep(5), IdxStep(6)})

VALID_MELODIC_INTERVAL_LIST == <<m2, M2, m3, M3, P4, P5, m6, P8>>

VALID_MELODIC_INTERVAL_SET ==
    {VALID_MELODIC_INTERVAL_LIST[k] : k \in 1..Len(VALID_MELODIC_INTERVAL_LIST)}

\* Mutant of is_valid_melodic_interval: the major sixth is accepted too
is_valid_melodic_interval_with_M6(local_ctx, interval) ==
    IntervalAbs(interval) \in VALID_MELODIC_INTERVAL_SET \cup {IntervalParse(1, 1, 6)}

\* is_valid_melodic_interval(local_ctx, interval)
is_valid_melodic_interval(local_ctx, interval) ==
    IntervalAbs(interval) \in VALID_MELODIC_INTERVAL_SET

\* set(list)
SeqToSet(seq) == {seq[k] : k \in 1..Len(seq)}

(***************************************************************************)
(* The move generators: search_start_note.py, search_end_note.py,          *)
(* search_harmonic_note.py, search_passing_tone.py, search_neighbor_tone.py*)
(* Each returns the exception it raises ("None" when it returns) and the   *)
(* list of contexts it returns.                                            *)
(***************************************************************************)

\* A returned list of contexts
Return(ctxs) == [error |-> "None", ctxs |-> ctxs]

\* A raised exception in place of the list
Raised(name) == [error |-> name, ctxs |-> << >>]

\* dataclasses.replace on each context re-runs __post_init__: the first context
\* that breaks an assertion raises AssertionError
Replaced(ctxs) ==
    IF \A k \in 1..Len(ctxs) : LocalMeasureContextPostInit(ctxs[k])
      THEN Return(ctxs)
    ELSE Raised("AssertionError")

\* Mutant of search_start_note.next_ctxs: under whole-note rhythm too the measure
\* begins with a rest, the rest and the pitch sharing the measure
StartNoteNextCtxs_rest_under_whole_notes(local_ctx) ==
    LET possible_pitches == start_available_pitches(local_ctx, local_ctx.current_cf)
        duration == IF local_ctx.rythmn_type = "WHOLE_NOTE" THEN 2
                    ELSE NoteDuration(local_ctx.rythmn_type)
        buffer(pitch) ==
            <<make_annotated_note(NONE, "HARMONIC_TONE", duration),
              make_annotated_note(pitch, "HARMONIC_TONE", duration)>>
    IN  Replaced([k \in 1..Len(possible_pitches) |->
                    [local_ctx EXCEPT !.note_buffer = buffer(possible_pitches[k]),
                                      !.next_measure_mark = NONE,
                                      !.is_root_chord = "True"]])

\* search_start_note.next_ctxs
StartNoteNextCtxs(local_ctx) ==
    LET possible_pitches == start_available_pitches(local_ctx, local_ctx.current_cf)
        duration == NoteDuration(local_ctx.rythmn_type)
        buffer(pitch) ==
            IF local_ctx.rythmn_type = "WHOLE_NOTE"
              THEN <<make_annotated_note(pitch, "HARMONIC_TONE", duration)>>
            ELSE <<make_annotated_note(NONE, "HARMONIC_TONE", duration),
                   make_annotated_note(pitch, "HARMONIC_TONE", duration)>>
    IN  Replaced([k \in 1..Len(possible_pitches) |->
                    [local_ctx EXCEPT !.note_buffer = buffer(possible_pitches[k]),
                                      !.next_measure_mark = NONE,
                                      !.is_root_chord = "True"]])

\* Mutant of the contexts search_end_note.next_ctxs builds: the rhythm type is
\* replaced too
EndNoteCtxs_rythmn_type_replaced(local_ctx, next_pitches) ==
    Replaced([k \in 1..Len(next_pitches) |->
                [local_ctx EXCEPT
                   !.note_buffer =
                       <<make_annotated_note(next_pitches[k], "HARMONIC_TONE", 4)>>,
                   !.next_measure_mark = NONE,
                   !.is_root_chord = "True",
                   !.rythmn_type = "WHOLE_NOTE"]])

\* The contexts search_end_note.next_ctxs builds from its pitches
EndNoteCtxs(local_ctx, next_pitches) ==
    Replaced([k \in 1..Len(next_pitches) |->
                [local_ctx EXCEPT
                   !.note_buffer =
                       <<make_annotated_note(next_pitches[k], "HARMONIC_TONE", 4)>>,
                   !.next_measure_mark = NONE,
                   !.is_root_chord = "True"]])

\* search_end_note.next_ctxs
EndNoteNextCtxs(local_ctx) ==
    IF local_ctx.next_measure_mark # NONE
      THEN EndNoteCtxs(local_ctx, <<local_ctx.next_measure_mark>>)
    ELSE LET previous_pitch == previous_latest_added_pitch(local_ctx)
         IN  IF IsRaise(previous_pitch) THEN Raised(previous_pitch.error)
             ELSE EndNoteCtxs(local_ctx,
                    SelectSeq(end_available_pitches(local_ctx, local_ctx.current_cf),
                      LAMBDA p : is_valid_melodic_interval(local_ctx,
                                   PitchSub(p, previous_pitch))))

\* Mutant of the mark branch of search_harmonic_note.next_ctxs: the interval from
\* the mark to the cantus firmus is not normalized
MarkChord_not_normalized(local_ctx) ==
    LET cf_mark_step ==
          IntervalStepOf(PitchSub(local_ctx.current_cf, local_ctx.next_measure_mark))
    IN  IF cf_mark_step = IdxStep(5) THEN "True"
        ELSE IF cf_mark_step = IdxStep(6) THEN "False"
        ELSE IF cf_mark_step \in {IdxStep(1), IdxStep(3)} THEN "None"
        ELSE "ValueError"

\* The is_root_chord search_harmonic_note.next_ctxs derives from a pending mark,
\* "ValueError" for a mark that is no 1st, 3rd, 5th or 6th of the cantus firmus
MarkChord(local_ctx) ==
    LET cf_mark_step ==
          IntervalStepOf(Normalize(PitchSub(local_ctx.current_cf,
                                            local_ctx.next_measure_mark)))
    IN  IF cf_mark_step = IdxStep(5) THEN "True"
        ELSE IF cf_mark_step = IdxStep(6) THEN "False"
        ELSE IF cf_mark_step \in {IdxStep(1), IdxStep(3)} THEN "None"
        ELSE "ValueError"

\* Mutant of the contexts search_harmonic_note.next_ctxs builds: the note is not
\* appended to the buffer
HarmonicCtxs_buffer_unchanged(local_ctx, next_pitch_and_chord_list) ==
    Replaced([k \in 1..Len(next_pitch_and_chord_list) |->
                [local_ctx EXCEPT
                   !.next_measure_mark = NONE,
                   !.is_root_chord = next_pitch_and_chord_list[k].chord]])

\* The contexts search_harmonic_note.next_ctxs builds from its (pitch, chord) pairs
HarmonicCtxs(local_ctx, next_pitch_and_chord_list) ==
    Replaced([k \in 1..Len(next_pitch_and_chord_list) |->
                [local_ctx EXCEPT
                   !.note_buffer =
                       Append(@, make_annotated_note(next_pitch_and_chord_list[k].pitch,
                                   "HARMONIC_TONE", NoteDuration(local_ctx.rythmn_type))),
                   !.next_measure_mark = NONE,
                   !.is_root_chord = next_pitch_and_chord_list[k].chord]])

\* Mutant of search_harmonic_note.next_ctxs: the candidates are not filtered by the
\* melodic interval from the previous pitch
HarmonicNextCtxs_unfiltered(local_ctx) ==
    IF local_ctx.next_measure_mark # NONE
      THEN IF MarkChord(local_ctx) = "ValueError" THEN Raised("ValueError")
           ELSE HarmonicCtxs(local_ctx,
                  <<[pitch |-> local_ctx.next_measure_mark,
                     chord |-> MarkChord(local_ctx)]>>)
    ELSE LET previous_pitch == previous_latest_added_pitch(local_ctx)
         IN  IF IsRaise(previous_pitch) THEN Raised(previous_pitch.error)
             ELSE HarmonicCtxs(local_ctx, available_harmonic_pitches_with_chord(local_ctx))

\* search_harmonic_note.next_ctxs
HarmonicNextCtxs(local_ctx) ==
    IF local_ctx.next_measure_mark # NONE
      THEN IF MarkChord(local_ctx) = "ValueError" THEN Raised("ValueError")
           ELSE HarmonicCtxs(local_ctx,
                  <<[pitch |-> local_ctx.next_measure_mark,
                     chord |-> MarkChord(local_ctx)]>>)
    ELSE LET previous_pitch == previous_latest_added_pitch(local_ctx)
         IN  IF IsRaise(previous_pitch) THEN Raised(previous_pitch.error)
             ELSE HarmonicCtxs(local_ctx,
                    SelectSeq(available_harmonic_pitches_with_chord(local_ctx),
                      LAMBDA c : is_valid_melodic_interval(local_ctx,
                                   PitchSub(c.pitch, previous_pitch))))

\* Mutant of conjunct_pitches: the range of steps starts at the pitch itself
conjunct_pitches_from_start(key, pitch, interval_step) ==
    IF interval_step = 0 THEN << >>
    ELSE IF interval_step > 0
      THEN [v \in 1..interval_step |-> add_interval_step_in_key(key, pitch, v - 1)]
    ELSE [v \in 1..(-interval_step) |-> add_interval_step_in_key(key, pitch, 1 - v)]

\* conjunct_pitches(key, pitch, interval_step)
conjunct_pitches(key, pitch, interval_step) ==
    IF interval_step = 0 THEN << >>
    ELSE IF interval_step > 0
      THEN [v \in 1..interval_step |-> add_interval_step_in_key(key, pitch, v)]
    ELSE [v \in 1..(-interval_step) |-> add_interval_step_in_key(key, pitch, -v)]

\* progression_pattern: the guard of its RuntimeError
ProgressionPatternRaises(offset, rythmn_type) ==
    \/ rythmn_type = "QUATER_NOTE" /\ offset \notin {1, 2, 3}
    \/ rythmn_type = "HALF_NOTE" /\ offset # 2

\* The upward patterns of progression_pattern
UpwardPatterns(offset, rythmn_type) ==
    CASE rythmn_type = "QUATER_NOTE" ->
           (IF offset = 1
              THEN <<[step |-> IdxStep(3), in_measure |-> TRUE],
                     [step |-> IdxStep(4), in_measure |-> TRUE],
                     [step |-> IdxStep(5), in_measure |-> FALSE]>>
            ELSE IF offset = 2
              THEN <<[step |-> IdxStep(3), in_measure |-> TRUE],
                     [step |-> IdxStep(4), in_measure |-> FALSE]>>
            ELSE IF offset = 3
              THEN <<[step |-> IdxStep(3), in_measure |-> FALSE]>>
            ELSE << >>)
      [] rythmn_type = "HALF_NOTE" ->
           (IF offset = 2
              THEN <<[step |-> IdxStep(3), in_measure |-> FALSE]>>
            ELSE << >>)
      [] OTHER -> << >>

\* Mutant of progression_pattern: the downward patterns are not added
progression_pattern_upward_only(offset, rythmn_type) ==
    UpwardPatterns(offset, rythmn_type)

\* progression_pattern(current_offset, rythmn_type): the upward patterns, then
\* the same patterns downward
progression_pattern(offset, rythmn_type) ==
    LET patterns == UpwardPatterns(offset, rythmn_type)
    IN  patterns \o [k \in 1..Len(patterns) |->
                            [step |-> patterns[k].step * (-1),
                             in_measure |-> patterns[k].in_measure]]

\* The notes of a passing motion: all but the last pitch of the line
PassingNotes(pitches, duration) ==
    [k \in 1..(Len(pitches) - 1) |->
       make_annotated_note(pitches[k], "PASSING_TONE", duration)]

\* Mutant of the pattern loop of search_passing_tone.next_ctxs: a run that stays in
\* the measure marks its target pitch as well
PassingPatternCtxs_mark_in_measure(local_ctx, pattern, previous_pitch) ==
    LET target_pitch == add_interval_step_in_key(KEY, previous_pitch, pattern.step)
        duration == NoteDuration(local_ctx.rythmn_type)
        pitches == conjunct_pitches(KEY, previous_pitch, pattern.step)
        hits == SelectSeq(available_harmonic_pitches_with_chord(local_ctx),
                          LAMBDA c : target_pitch = c.pitch)
        a_pitches == IF local_ctx.is_next_last_measure
                       THEN end_available_pitches(local_ctx, local_ctx.next_measure_cf)
                     ELSE available_pitches(local_ctx, local_ctx.next_measure_cf)
        crossing == SelectSeq(a_pitches, LAMBDA q : target_pitch = q)
    IN  IF pattern.in_measure
          THEN [k \in 1..Len(hits) |->
                  [local_ctx EXCEPT
                     !.note_buffer =
                         @ \o PassingNotes(pitches, duration)
                           \o <<make_annotated_note(pitches[Len(pitches)],
                                                    "HARMONIC_TONE", duration)>>,
                     !.next_measure_mark = pitches[Len(pitches)],
                     !.is_root_chord = hits[k].chord]]
        ELSE [k \in 1..Len(crossing) |->
                [local_ctx EXCEPT
                   !.note_buffer = @ \o PassingNotes(pitches, duration),
                   !.next_measure_mark = pitches[Len(pitches)]]]

\* One iteration of the pattern loop of search_passing_tone.next_ctxs
PassingPatternCtxs(local_ctx, pattern, previous_pitch) ==
    LET target_pitch == add_interval_step_in_key(KEY, previous_pitch, pattern.step)
        duration == NoteDuration(local_ctx.rythmn_type)
        pitches == conjunct_pitches(KEY, previous_pitch, pattern.step)
        hits == SelectSeq(available_harmonic_pitches_with_chord(local_ctx),
                          LAMBDA c : target_pitch = c.pitch)
        a_pitches == IF local_ctx.is_next_last_measure
                       THEN end_available_pitches(local_ctx, local_ctx.next_measure_cf)
                     ELSE available_pitches(local_ctx, local_ctx.next_measure_cf)
        crossing == SelectSeq(a_pitches, LAMBDA q : target_pitch = q)
    IN  IF pattern.in_measure
          THEN [k \in 1..Len(hits) |->
                  [local_ctx EXCEPT
                     !.note_buffer =
                         @ \o PassingNotes(pitches, duration)
                           \o <<make_annotated_note(pitches[Len(pitches)],
                                                    "HARMONIC_TONE", duration)>>,
                     !.next_measure_mark = NONE,
                     !.is_root_chord = hits[k].chord]]
        ELSE [k \in 1..Len(crossing) |->
                [local_ctx EXCEPT
                   !.note_buffer = @ \o PassingNotes(pitches, duration),
                   !.next_measure_mark = pitches[Len(pitches)]]]

\* Mutant of search_passing_tone.next_ctxs: the first beat of the measure is not refused
PassingNextCtxs_at_first_beat(local_ctx) ==
    IF local_ctx.is_last_measure THEN Return(<< >>)
    ELSE IF CurrentOffsetRaises(local_ctx) THEN Raised("ValueError")
    ELSE IF local_ctx.next_measure_mark # NONE THEN Return(<< >>)
    ELSE IF local_ctx.next_measure_cf = NONE THEN Raised("AssertionError")
    ELSE LET patterns == progression_pattern(current_offset(local_ctx),
                                             local_ctx.rythmn_type)
             previous_pitch == previous_latest_added_pitch(local_ctx)
         IN  IF ProgressionPatternRaises(current_offset(local_ctx),
                                         local_ctx.rythmn_type)
               THEN Raised("RuntimeError")
             ELSE IF patterns = << >> THEN Return(<< >>)
             ELSE IF IsRaise(previous_pitch) THEN Raised(previous_pitch.error)
             ELSE Replaced(Flatten([k \in 1..Len(patterns) |->
                    PassingPatternCtxs(local_ctx, patterns[k], previous_pitch)]))

\* search_passing_tone.next_ctxs
PassingNextCtxs(local_ctx) ==
    IF local_ctx.is_last_measure THEN Return(<< >>)
    ELSE IF CurrentOffsetRaises(local_ctx) THEN Raised("ValueError")
    ELSE IF current_offset(local_ctx) = 0 THEN Return(<< >>)
    ELSE IF local_ctx.next_measure_mark # NONE THEN Return(<< >>)
    ELSE IF local_ctx.next_measure_cf = NONE THEN Raised("AssertionError")
    ELSE LET patterns == progression_pattern(current_offset(local_ctx),
                                             local_ctx.rythmn_type)
             previous_pitch == previous_latest_added_pitch(local_ctx)
         IN  IF ProgressionPatternRaises(current_offset(local_ctx),
                                         local_ctx.rythmn_type)
               THEN Raised("RuntimeError")
             ELSE IF patterns = << >> THEN Return(<< >>)
             ELSE IF IsRaise(previous_pitch) THEN Raised(previous_pitch.error)
             ELSE Replaced(Flatten([k \in 1..Len(patterns) |->
                    PassingPatternCtxs(local_ctx, patterns[k], previous_pitch)]))

\* Mutant of _available_neighbor_note_pitches: the voice range is not checked
available_neighbor_note_pitches_unfiltered(previous_pitch) ==
    <<add_interval_step_in_key(KEY, previous_pitch, IdxStep(2)),
      add_interval_step_in_key(KEY, previous_pitch, IdxStep(-2))>>

\* _available_neighbor_note_pitches, from the previous pitch
available_neighbor_note_pitches(previous_pitch) ==
    SelectSeq(<<add_interval_step_in_key(KEY, previous_pitch, IdxStep(2)),
                add_interval_step_in_key(KEY, previous_pitch, IdxStep(-2))>>,
              LAMBDA neighbor_pitch : neighbor_pitch \in AVAILABLE_PITCHES_SET)

\* _is_target_note_in_current_measure: the guard of its RuntimeError
IsTargetNoteRaises(local_ctx) ==
    \/ local_ctx.rythmn_type = "QUATER_NOTE" /\ current_offset(local_ctx) \notin {1, 2, 3}
    \/ local_ctx.rythmn_type = "HALF_NOTE" /\ current_offset(local_ctx) # 2
    \/ local_ctx.rythmn_type = "WHOLE_NOTE"

\* Mutant of _is_target_note_in_current_measure: beat 4 is taken to stay in the measure
is_target_note_in_current_measure_beat_4(local_ctx) ==
    local_ctx.rythmn_type = "QUATER_NOTE" /\ current_offset(local_ctx) \in {1, 2, 3}

\* _is_target_note_in_current_measure, where it returns
is_target_note_in_current_measure(local_ctx) ==
    local_ctx.rythmn_type = "QUATER_NOTE" /\ current_offset(local_ctx) \in {1, 2}

\* search_neighbor_tone.next_ctxs
NeighborNextCtxs(local_ctx) ==
    IF local_ctx.is_last_measure THEN Return(<< >>)
    ELSE IF CurrentOffsetRaises(local_ctx) THEN Raised("ValueError")
    ELSE IF current_offset(local_ctx) = 0 THEN Return(<< >>)
    ELSE IF local_ctx.next_measure_mark # NONE THEN Return(<< >>)
    ELSE IF local_ctx.next_measure_cf = NONE THEN Raised("AssertionError")
    ELSE IF IsTargetNoteRaises(local_ctx) THEN Raised("RuntimeError")
    ELSE LET previous_pitch == previous_latest_added_pitch(local_ctx)
             duration == NoteDuration(local_ctx.rythmn_type)
             neighbors == available_neighbor_note_pitches(previous_pitch)
             a_pitches ==
                 IF local_ctx.is_next_last_measure
                   THEN SeqToSet(end_available_pitches(local_ctx, local_ctx.next_measure_cf))
                 ELSE SeqToSet(available_pitches(local_ctx, local_ctx.next_measure_cf))
         IN  IF IsRaise(previous_pitch) THEN Raised(previous_pitch.error)
             ELSE IF is_target_note_in_current_measure(local_ctx)
               THEN Replaced([k \in 1..Len(neighbors) |->
                      [local_ctx EXCEPT
                         !.note_buffer =
                             @ \o <<make_annotated_note(neighbors[k], "NEIGHBOR_TONE",
                                                        duration),
                                    make_annotated_note(previous_pitch, "HARMONIC_TONE",
                                                        duration)>>,
                         !.next_measure_mark = NONE]])
             ELSE IF previous_pitch \in a_pitches
               THEN Replaced([k \in 1..Len(neighbors) |->
                      [local_ctx EXCEPT
                         !.note_buffer =
                             Append(@, make_annotated_note(neighbors[k], "NEIGHBOR_TONE",
                                                           duration)),
                         !.next_measure_mark = previous_pitch]])
             ELSE Return(<< >>)

(***************************************************************************)
(* counterpoint/validator.py and counterpoint/all_measure_validator.py     *)
(***************************************************************************)

\* Mutant of check_is_parallel_motion: the comparison of the directions inverted
check_is_parallel_motion_inverted(sequence_1, sequence_2) ==
    IF sequence_1[1] = sequence_1[2] \/ sequence_2[1] = sequence_2[2] THEN FALSE
    ELSE (Num(sequence_1[2]) > Num(sequence_1[1]))
           # (Num(sequence_2[2]) > Num(sequence_2[1]))

\* check_is_parallel_motion(sequence_1, sequence_2)
check_is_parallel_motion(sequence_1, sequence_2) ==
    IF sequence_1[1] = sequence_1[2] \/ sequence_2[1] = sequence_2[2] THEN FALSE
    ELSE (Num(sequence_1[2]) > Num(sequence_1[1]))
           = (Num(sequence_2[2]) > Num(sequence_2[1]))

\* check_is_contrary_motion(sequence_1, sequence_2)
check_is_contrary_motion(sequence_1, sequence_2) ==
    IF sequence_1[1] = sequence_1[2] \/ sequence_2[1] = sequence_2[2] THEN FALSE
    ELSE (Num(sequence_1[2]) > Num(sequence_1[1]))
           # (Num(sequence_2[2]) > Num(sequence_2[1]))

\* check_is_parallel_violation(sequence_1, sequence_2)
check_is_parallel_violation(sequence_1, sequence_2) ==
    LET first_interval_normalized == Normalize(IntervalOf(sequence_1[1], sequence_2[1]))
        second_interval_normalized == Normalize(IntervalOf(sequence_1[2], sequence_2[2]))
    IN  IF ~(check_is_parallel_motion(sequence_1, sequence_2)
             \/ check_is_contrary_motion(sequence_1, sequence_2))
          THEN FALSE
        ELSE \/ first_interval_normalized = P1 /\ second_interval_normalized = P1
             \/ first_interval_normalized = P5 /\ second_interval_normalized = P5
             \/ first_interval_normalized = d5 /\ second_interval_normalized = P5
             \/ first_interval_normalized = P5 /\ second_interval_normalized = d5

\* Mutant of is_hidden_interval_violation: only the unison and the octave are checked
is_hidden_interval_violation_octaves_only(sequence_1, sequence_2) ==
    IF ~check_is_parallel_motion(sequence_1, sequence_2) THEN FALSE
    ELSE Normalize(IntervalOf(sequence_1[2], sequence_2[2])) \in {P1}

\* is_hidden_interval_violation(sequence_1, sequence_2)
is_hidden_interval_violation(sequence_1, sequence_2) ==
    IF ~check_is_parallel_motion(sequence_1, sequence_2) THEN FALSE
    ELSE Normalize(IntervalOf(sequence_1[2], sequence_2[2])) \in {P1, P5}

\* validate_interval: the check at the barline, both voices moving together
DirectViolation(local_ctx) ==
    LET prev == local_ctx.previous_measure.annotated_notes
        previous_measure_last_pitch == prev[Len(prev)].note.pitch
        current_measure_first_pitch == local_ctx.note_buffer[1].note.pitch
        sequence_1 == <<local_ctx.previous_cf, local_ctx.current_cf>>
        sequence_2 == <<previous_measure_last_pitch, current_measure_first_pitch>>
    IN  /\ previous_measure_last_pitch # NONE
        /\ current_measure_first_pitch # NONE
        /\ \/ check_is_parallel_violation(sequence_1, sequence_2)
           \/ is_hidden_interval_violation(sequence_1, sequence_2)

\* Mutant of the pair check of validate_interval: contrary motion or a non-harmonic
\* tone excuses a pair also when the later note is struck with the cantus firmus
IndirectViolationAt_downbeat_excused(local_ctx, realize_current_offset, realize_previous_offset) ==
    LET cf_measure ==
          AnnotatedMeasure(
            <<make_annotated_note(local_ctx.previous_cf, "HARMONIC_TONE", 4),
              make_annotated_note(local_ctx.current_cf, "HARMONIC_TONE", 4)>>)
        realize_measure ==
          AnnotatedMeasure(local_ctx.previous_measure.annotated_notes
                             \o local_ctx.note_buffer)
        realize_current_a_note == OffsetNoteValue(realize_measure, realize_current_offset)
        realize_previous_a_note == OffsetNoteValue(realize_measure, realize_previous_offset)
        cf_current == offset_note_at(cf_measure, realize_current_offset)
        cf_previous == offset_note_at(cf_measure, realize_previous_offset)
        sequence_1 == <<cf_previous.annotated_note.note.pitch,
                        cf_current.annotated_note.note.pitch>>
        sequence_2 == <<realize_previous_a_note.note.pitch,
                        realize_current_a_note.note.pitch>>
        non_harmonic_tone_exists ==
          \/ realize_current_a_note.tone_type # "HARMONIC_TONE"
          \/ realize_previous_a_note.tone_type # "HARMONIC_TONE"
    IN  /\ realize_current_offset >= 4
        /\ 0 < realize_current_offset - realize_previous_offset
        /\ realize_current_offset - realize_previous_offset <= 4
        /\ realize_current_a_note.note.pitch # NONE
        /\ realize_previous_a_note.note.pitch # NONE
        /\ check_is_parallel_violation(sequence_1, sequence_2)
        /\ ~(\/ check_is_contrary_motion(sequence_1, sequence_2)
             \/ non_harmonic_tone_exists)

\* validate_interval: the check of one pair of notes of the two joined measures
IndirectViolationAt(local_ctx, realize_current_offset, realize_previous_offset) ==
    LET cf_measure ==
          AnnotatedMeasure(
            <<make_annotated_note(local_ctx.previous_cf, "HARMONIC_TONE", 4),
              make_annotated_note(local_ctx.current_cf, "HARMONIC_TONE", 4)>>)
        realize_measure ==
          AnnotatedMeasure(local_ctx.previous_measure.annotated_notes
                             \o local_ctx.note_buffer)
        realize_current_a_note == OffsetNoteValue(realize_measure, realize_current_offset)
        realize_previous_a_note == OffsetNoteValue(realize_measure, realize_previous_offset)
        cf_current == offset_note_at(cf_measure, realize_current_offset)
        cf_previous == offset_note_at(cf_measure, realize_previous_offset)
        sequence_1 == <<cf_previous.annotated_note.note.pitch,
                        cf_current.annotated_note.note.pitch>>
        sequence_2 == <<realize_previous_a_note.note.pitch,
                        realize_current_a_note.note.pitch>>
        has_following_notes_same_offset == cf_current.onset = realize_current_offset
        non_harmonic_tone_exists ==
          \/ realize_current_a_note.tone_type # "HARMONIC_TONE"
          \/ realize_previous_a_note.tone_type # "HARMONIC_TONE"
    IN  /\ realize_current_offset >= 4
        /\ 0 < realize_current_offset - realize_previous_offset
        /\ realize_current_offset - realize_previous_offset <= 4
        /\ realize_current_a_note.note.pitch # NONE
        /\ realize_previous_a_note.note.pitch # NONE
        /\ check_is_parallel_violation(sequence_1, sequence_2)
        /\ ~(/\ ~has_following_notes_same_offset
             /\ \/ check_is_contrary_motion(sequence_1, sequence_2)
                \/ non_harmonic_tone_exists)

\* validate_interval(local_ctx)
validate_interval(local_ctx) ==
    IF local_ctx.is_first_measure THEN TRUE
    ELSE LET keys == OffsetNoteKeys(
                       AnnotatedMeasure(local_ctx.previous_measure.annotated_notes
                                          \o local_ctx.note_buffer))
         IN  /\ ~DirectViolation(local_ctx)
             /\ \A realize_current_offset \in keys, realize_previous_offset \in keys :
                  ~IndirectViolationAt(local_ctx, realize_current_offset,
                                       realize_previous_offset)

\* Mutant of extended_note_buffer: the notes of the previous measure are left out
extended_note_buffer_current_only(local_ctx, num) == local_ctx.note_buffer

\* extended_note_buffer(local_ctx, num): the parameter num is not read, the last
\* two notes of the previous measure are taken
extended_note_buffer(local_ctx, num) ==
    LET prev == IF local_ctx.previous_measure # NONE
                  THEN local_ctx.previous_measure.annotated_notes
                ELSE << >>
    IN  SubSeq(prev, IF Len(prev) >= 2 THEN Len(prev) - 1 ELSE 1, Len(prev))
          \o local_ctx.note_buffer

\* The sounding pitches of extended_note_buffer(local_ctx, 2)
ExtendedPitches(local_ctx) ==
    LET sounding == SelectSeq(extended_note_buffer(local_ctx, 2),
                              LAMBDA an : an.note.pitch # NONE)
    IN  [k \in 1..Len(sounding) |-> sounding[k].note.pitch]

\* The steps of the second and third pitch of a window from its first pitch
WindowSteps(pitches, k) ==
    <<IntervalStepOf(PitchSub(pitches[k + 1], pitches[k])),
      IntervalStepOf(PitchSub(pitches[k + 2], pitches[k]))>>

\* arpeggiio_steps_list of validate_melody_arpeggiio
ARPEGGIIO_STEPS_LIST ==
    {<<IdxStep(3), IdxStep(5)>>, <<IdxStep(-3), IdxStep(-5)>>,
     <<IdxStep(3), IdxStep(6)>>, <<IdxStep(-3), IdxStep(-6)>>,
     <<IdxStep(4), IdxStep(6)>>, <<IdxStep(-4), IdxStep(-6)>>}

\* arpeggiio_steps_list of validate_melody_arpeggiio_extra
ARPEGGIIO_EXTRA_STEPS_LIST ==
    {<<IdxStep(5), IdxStep(8)>>, <<IdxStep(-5), IdxStep(-8)>>,
     <<IdxStep(4), IdxStep(8)>>, <<IdxStep(-4), IdxStep(-8)>>}

\* validate_melody_arpeggiio(local_ctx)
validate_melody_arpeggiio(local_ctx) ==
    LET pitches == ExtendedPitches(local_ctx)
    IN  \A k \in SlidingStarts(pitches, 3) :
          WindowSteps(pitches, k) \notin ARPEGGIIO_STEPS_LIST

\* validate_melody_arpeggiio_extra(local_ctx)
validate_melody_arpeggiio_extra(local_ctx) ==
    LET pitches == ExtendedPitches(local_ctx)
    IN  \A k \in SlidingStarts(pitches, 3) :
          WindowSteps(pitches, k) \notin ARPEGGIIO_EXTRA_STEPS_LIST

\* validate_melody_interval_7_9(local_ctx)
validate_melody_interval_7_9(local_ctx) ==
    LET pitches == ExtendedPitches(local_ctx)
        AbsStep(a, b) == IntervalStepOf(IntervalAbs(PitchSub(a, b)))
    IN  \A k \in SlidingStarts(pitches, 3) :
          LET step_1_3 == AbsStep(pitches[k], pitches[k + 2])
              step_1_2 == AbsStep(pitches[k], pitches[k + 1])
              step_2_3 == AbsStep(pitches[k + 1], pitches[k + 2])
          IN  (step_1_3 = IdxStep(7) \/ step_1_3 > IdxStep(9))
                => (step_1_2 = IdxStep(2) \/ step_2_3 = IdxStep(2))

\* validate_melody(local_ctx)
validate_melody(local_ctx) ==
    /\ validate_melody_arpeggiio(local_ctx)
    /\ validate_melody_arpeggiio_extra(local_ctx)
    /\ validate_melody_interval_7_9(local_ctx)

\* validator.validate(local_ctx)
validate(local_ctx) == validate_interval(local_ctx) /\ validate_melody(local_ctx)

\* The sounding pitches of all completed measures, in order
RECURSIVE AllPitches(_)
AllPitches(measures) ==
    IF measures = << >> THEN << >>
    ELSE LET sounding == SelectSeq(measures[1].annotated_notes,
                                   LAMBDA an : an.note.pitch # NONE)
         IN  [k \in 1..Len(sounding) |-> sounding[k].note.pitch]
               \o AllPitches(Tail(measures))

\* min(all_pitches, key=num) and max(all_pitches, key=num): the first of the
\* lowest and the first of the highest
FirstExtreme(pitches, sign) ==
    LET best == {k \in 1..Len(pitches) :
                   \A j \in 1..Len(pitches) : sign * Num(pitches[k]) >= sign * Num(pitches[j])}
    IN  pitches[CHOOSE k \in best : \A j \in best : k <= j]

\* Mutant of validate_part_total_range: a 12th is let through
validate_part_total_range_12th(global_ctx) ==
    LET all_pitches == AllPitches(global_ctx.completed_measures)
        p_min == FirstExtreme(all_pitches, -1)
        p_max == FirstExtreme(all_pitches, 1)
    IN  IntervalStepOf(PitchSub(p_max, p_min)) <= IdxStep(12)

\* validate_part_total_range(global_ctx)
validate_part_total_range(global_ctx) ==
    LET all_pitches == AllPitches(global_ctx.completed_measures)
        p_min == FirstExtreme(all_pitches, -1)
        p_max == FirstExtreme(all_pitches, 1)
    IN  IntervalStepOf(PitchSub(p_max, p_min)) <= IdxStep(11)

\* all_measure_validator.validate(global_ctx)
validate_all_measure(global_ctx) == validate_part_total_range(global_ctx)

(***************************************************************************)
(* counterpoint/state.py: the states and their next_states                 *)
(***************************************************************************)

\* A state of the search: its class, its global context, its local context
State(kind, global_ctx, local_ctx) ==
    [kind |-> kind, global_ctx |-> global_ctx, local_ctx |-> local_ctx]

\* State.start_state(cantus_firmus, rythmn_type)
start_state(cantus_firmus, rythmn_type) ==
    LET g_ctx == new_global_context(cantus_firmus, rythmn_type)
    IN  State("ChooseSearchState", g_ctx, new_local_measure_countext(g_ctx))

\* The states next_states yields, or the exception it raises
Yields(states) == [error |-> "None", states |-> states]

Raises(name) == [error |-> name, states |-> << >>]

\* The __post_init__ assertion of each state class
StatePostInit(kind, local_ctx) ==
    CASE kind = "SearchingStartNoteState" ->
           total_note_buffer_duration(local_ctx) = 0 /\ local_ctx.next_measure_mark = NONE
      [] kind = "SearchingEndNoteState" -> total_note_buffer_duration(local_ctx) = 0
      [] kind \in {"SearchingHarmonicNoteInMeasureState",
                   "SearchingPassingNoteInMeasureState",
                   "SearchingNeighborNoteInMeasureState"} ->
           total_note_buffer_duration(local_ctx) < MEASURE_TOTAL_DURATION
      [] kind = "ValidatingInMeasureState" -> is_buffer_fulfilled(local_ctx)
      [] OTHER -> TRUE

\* The construction of the listed state classes over one pair of contexts
Constructed(kinds, global_ctx, local_ctx) ==
    IF \A k \in 1..Len(kinds) : StatePostInit(kinds[k], local_ctx)
      THEN Yields([k \in 1..Len(kinds) |-> State(kinds[k], global_ctx, local_ctx)])
    ELSE Raises("AssertionError")

\* Mutant of ChooseSearchState.next_states: the first measure at beat 1 is tested
\* before the last measure
ChooseSearchNextStates_start_before_end(s) ==
    IF is_buffer_fulfilled(s.local_ctx)
      THEN Constructed(<<"ValidatingInMeasureState">>, s.global_ctx, s.local_ctx)
    ELSE IF s.local_ctx.is_first_measure /\ current_offset(s.local_ctx) = 0
      THEN Constructed(<<"SearchingStartNoteState">>, s.global_ctx, s.local_ctx)
    ELSE IF s.local_ctx.is_last_measure
      THEN Constructed(<<"SearchingEndNoteState">>, s.global_ctx, s.local_ctx)
    ELSE Constructed(<<"SearchingHarmonicNoteInMeasureState",
                       "SearchingPassingNoteInMeasureState",
                       "SearchingNeighborNoteInMeasureState">>,
                     s.global_ctx, s.local_ctx)

\* ChooseSearchState.next_states
ChooseSearchNextStates(s) ==
    IF is_buffer_fulfilled(s.local_ctx)
      THEN Constructed(<<"ValidatingInMeasureState">>, s.global_ctx, s.local_ctx)
    ELSE IF s.local_ctx.is_last_measure
      THEN Constructed(<<"SearchingEndNoteState">>, s.global_ctx, s.local_ctx)
    ELSE IF s.local_ctx.is_first_measure /\ CurrentOffsetRaises(s.local_ctx)
      THEN Raises("ValueError")
    ELSE IF s.local_ctx.is_first_measure /\ current_offset(s.local_ctx) = 0
      THEN Constructed(<<"SearchingStartNoteState">>, s.global_ctx, s.local_ctx)
    ELSE Constructed(<<"SearchingHarmonicNoteInMeasureState",
                       "SearchingPassingNoteInMeasureState",
                       "SearchingNeighborNoteInMeasureState">>,
                     s.global_ctx, s.local_ctx)

\* next_ctxs of the SearchNote subclasses
next_ctxs(s) ==
    CASE s.kind = "SearchingStartNoteState" -> StartNoteNextCtxs(s.local_ctx)
      [] s.kind = "SearchingEndNoteState" -> EndNoteNextCtxs(s.local_ctx)
      [] s.kind = "SearchingHarmonicNoteInMeasureState" -> HarmonicNextCtxs(s.local_ctx)
      [] s.kind = "SearchingPassingNoteInMeasureState" -> PassingNextCtxs(s.local_ctx)
      [] s.kind = "SearchingNeighborNoteInMeasureState" -> NeighborNextCtxs(s.local_ctx)

\* SearchNote.next_states, from what next_ctxs returned
SearchNoteStates(s, new_local_ctxs) ==
    IF new_local_ctxs.error # "None" THEN Raises(new_local_ctxs.error)
    ELSE Yields([k \in 1..Len(new_local_ctxs.ctxs) |->
                   State("ChooseSearchState", s.global_ctx, new_local_ctxs.ctxs[k])])

\* SearchNote.next_states
SearchNoteNextStates(s) == SearchNoteStates(s, next_ctxs(s))

\* ValidatingInMeasureState.next_states
ValidatingInMeasureNextStates(s) ==
    IF ~validate(s.local_ctx)
      THEN Yields(<<State("MeasurePrunedState", s.global_ctx, s.local_ctx)>>)
    ELSE LET new_global_ctx == local_ctx_appended(s.global_ctx, s.local_ctx)
         IN  IF ~GlobalContextPostInit(new_global_ctx) THEN Raises("AssertionError")
             ELSE IF is_measures_fulfilled(new_global_ctx)
               THEN Yields(<<State("ValidatingAllMeasureState", new_global_ctx, NONE)>>)
             ELSE Yields(<<State("ChooseSearchState", new_global_ctx,
                                 new_local_measure_countext(new_global_ctx))>>)

\* ValidatingAllMeasureState.next_states
ValidatingAllMeasureNextStates(s) ==
    IF ~validate_all_measure(s.global_ctx)
      THEN Yields(<<State("PrunedState", s.global_ctx, NONE)>>)
    ELSE Yields(<<State("EndState", s.global_ctx, NONE)>>)

SearchNoteKinds ==
    {"SearchingStartNoteState", "SearchingEndNoteState",
     "SearchingHarmonicNoteInMeasureState", "SearchingPassingNoteInMeasureState",
     "SearchingNeighborNoteInMeasureState"}

\* Mutant of the isinstance tests of _find_terminal_states: a MeasurePrunedState
\* is not recognised and is expanded
TerminalKinds_without_measure_pruned == {"EndState", "PrunedState"}

\* The states _find_terminal_states does not expand
TerminalKinds == {"EndState", "PrunedState", "MeasurePrunedState"}

\* next_states of a state of any class; EndState, PrunedState and MeasurePrunedState
\* raise RuntimeError("not called")
next_states(s) ==
    CASE s.kind = "ChooseSearchState" -> ChooseSearchNextStates(s)
      [] s.kind \in SearchNoteKinds -> SearchNoteNextStates(s)
      [] s.kind = "ValidatingInMeasureState" -> ValidatingInMeasureNextStates(s)
      [] s.kind = "ValidatingAllMeasureState" -> ValidatingAllMeasureNextStates(s)
      [] OTHER -> Raises("RuntimeError")

(***************************************************************************)
(* The inputs: bounded cantus firmi and the three rhythm types             *)
(***************************************************************************)

\* The longest cantus firmus
MaxCfLen == 3

\* The most notes of a realization: every measure but the last holds the notes
\* of its rhythm type, the last one whole note
MaxNotes == 5

\* The pitches a cantus firmus is drawn from
CfPitches == {PitchParse("G", 0, 3), PitchParse("C", 0, 4), PitchParse("D", 0, 4)}

\* The notes per measure of a rhythm type
NotesPerMeasure(rythmn_type) == MEASURE_TOTAL_DURATION \div NoteDuration(rythmn_type)

\* The cantus firmi of length len
CantusFirmi(len) == [1..len -> CfPitches]

\* A cantus firmus searched under quarter-note rhythm beyond MaxNotes: its middle
\* measure is neither the first nor the last
MiddleMeasureCf ==
    <<PitchParse("C", 0, 4), PitchParse("D", 0, 4), PitchParse("C", 0, 4)>>

\* The inputs of generate(cantus_firmus, rythmn_type)
Inputs ==
    {in \in UNION {CantusFirmi(len) \X RythmnTypes : len \in 1..MaxCfLen} :
       (Len(in[1]) - 1) * NotesPerMeasure(in[2]) + 1 <= MaxNotes}
      \cup {<<MiddleMeasureCf, "QUATER_NOTE">>}

(***************************************************************************)
(* Specification Spec: a walk down the tree of states, one next_states     *)
(* call per step, any one of the yielded states taken as the next one.     *)
(***************************************************************************)

\* No call of shuffled_interleave is followed on its own
NoInterleave ==
    /\ iterables = << >>
    /\ active_iterators = << >>
    /\ cursor = [id |-> 1, pos |-> 0]
    /\ output = << >>

Init ==
    /\ \E in \in Inputs : state = start_state(in[1], in[2])
    /\ raised = "None"
    /\ randomized = FALSE
    /\ pending = << >>
    /\ yielded = << >>
    /\ pruned_seen = 0
    /\ NoInterleave

\* The outcome r of one call of next_states on the current state: an exception is
\* recorded, else any yielded state becomes the current one
Step(r) ==
    /\ raised = "None"
    /\ IF r.error # "None"
         THEN raised' = r.error /\ state' = state
       ELSE raised' = raised /\ \E k \in 1..Len(r.states) : state' = r.states[k]
    /\ UNCHANGED <<randomized, pending, yielded, pruned_seen, interleave_vars>>

ChooseSearchState ==
    /\ state.kind = "ChooseSearchState"
    /\ \E r \in {ChooseSearchNextStates(state)} : Step(r)

SearchingStartNoteState ==
    /\ state.kind = "SearchingStartNoteState"
    /\ \E r \in {SearchNoteStates(state, StartNoteNextCtxs(state.local_ctx))} : Step(r)

SearchingEndNoteState ==
    /\ state.kind = "SearchingEndNoteState"
    /\ \E r \in {SearchNoteStates(state, EndNoteNextCtxs(state.local_ctx))} : Step(r)

SearchingHarmonicNoteInMeasureState ==
    /\ state.kind = "SearchingHarmonicNoteInMeasureState"
    /\ \E r \in {SearchNoteStates(state, HarmonicNextCtxs(state.local_ctx))} : Step(r)

SearchingPassingNoteInMeasureState ==
    /\ state.kind = "SearchingPassingNoteInMeasureState"
    /\ \E r \in {SearchNoteStates(state, PassingNextCtxs(state.local_ctx))} : Step(r)

SearchingNeighborNoteInMeasureState ==
    /\ state.kind = "SearchingNeighborNoteInMeasureState"
    /\ \E r \in {SearchNoteStates(state, NeighborNextCtxs(state.local_ctx))} : Step(r)

ValidatingInMeasureState ==
    /\ state.kind = "ValidatingInMeasureState"
    /\ \E r \in {ValidatingInMeasureNextStates(state)} : Step(r)

ValidatingAllMeasureState ==
    /\ state.kind = "ValidatingAllMeasureState"
    /\ \E r \in {ValidatingAllMeasureNextStates(state)} : Step(r)

Next ==
    \/ ChooseSearchState
    \/ SearchingStartNoteState
    \/ SearchingEndNoteState
    \/ SearchingHarmonicNoteInMeasureState
    \/ SearchingPassingNoteInMeasureState
    \/ SearchingNeighborNoteInMeasureState
    \/ ValidatingInMeasureState
    \/ ValidatingAllMeasureState

Spec == Init /\ [][Next]_vars

(***************************************************************************)
(* Specification SpecSearch: State._find_terminal_states and               *)
(* State.final_states.  pending is the frontier of the tree in iteration   *)
(* order: with randomized = FALSE shuffled_interleave drains its iterators *)
(* in order, so the head is taken; with randomized = TRUE random.choice    *)
(* may descend to any member.                                              *)
(***************************************************************************)

\* The longest cantus firmus searched over the whole pool of pitches
MaxSearchLen == 2

\* A cantus firmus whose every complete realization spans more than an 11th
WideCf ==
    <<PitchParse("G", 0, 5), PitchParse("E", 0, 4), PitchParse("E", 0, 3),
      PitchParse("D", 0, 2)>>

\* A cantus firmus with realizations both within and beyond an 11th
MixedCf == <<PitchParse("C", 0, 4), PitchParse("C", 0, 4), PitchParse("G", 0, 3)>>

\* The inputs searched in order (randomized = FALSE): the bounded pool, without the
\* long quarter-note input
SearchInputs ==
    {in \in Inputs : Len(in[1]) <= MaxSearchLen
                       /\ in # <<MiddleMeasureCf, "QUATER_NOTE">>}
      \cup {<<WideCf, "WHOLE_NOTE">>, <<MixedCf, "WHOLE_NOTE">>}

\* The inputs also searched in random order (randomized = TRUE)
RandomizedInputs ==
    {<<<<PitchParse("A", 0, 4), PitchParse("G", 0, 4)>>, "WHOLE_NOTE">>,
     <<<<PitchParse("C", 0, 4)>>, "WHOLE_NOTE">>}

InitSearch ==
    /\ \E in \in SearchInputs \cup RandomizedInputs :
         /\ state = start_state(in[1], in[2])
         /\ pending = <<start_state(in[1], in[2])>>
         /\ randomized \in (IF in \in RandomizedInputs THEN {TRUE} ELSE {FALSE})
    /\ raised = "None"
    /\ yielded = << >>
    /\ pruned_seen = 0
    /\ NoInterleave

\* Mutant of shuffled_interleave: with randomized = False the iterators are
\* drained from the last to the first
Choices_last_first ==
    IF randomized THEN 1..Len(pending) ELSE {k \in {Len(pending)} : Len(pending) >= 1}

\* The members of pending the iteration may take next
Choices == IF randomized THEN 1..Len(pending) ELSE {k \in {1} : Len(pending) >= 1}

\* pending without its i-th member, the given states in its place
Replace(i, states) ==
    SubSeq(pending, 1, i - 1) \o states \o SubSeq(pending, i + 1, Len(pending))

\* _find_terminal_states on a state that is no EndState, PrunedState or
\* MeasurePrunedState: the child iterators take the place of the state
FindTerminalStatesExpand ==
    \E i \in Choices :
      /\ raised = "None"
      /\ pending[i].kind \notin TerminalKinds
      /\ \E r \in {next_states(pending[i])} :
           /\ state' = pending[i]
           /\ IF r.error # "None"
                THEN raised' = r.error /\ pending' = pending
              ELSE raised' = raised /\ pending' = Replace(i, r.states)
      /\ UNCHANGED <<randomized, yielded, pruned_seen, interleave_vars>>

\* _find_terminal_states yields an EndState and final_states passes it on
FinalStatesYieldEnd ==
    \E i \in Choices :
      /\ raised = "None"
      /\ pending[i].kind = "EndState"
      /\ state' = pending[i]
      /\ yielded' = Append(yielded, pending[i].global_ctx.completed_measures)
      /\ pending' = Replace(i, << >>)
      /\ UNCHANGED <<raised, randomized, pruned_seen, interleave_vars>>

\* _find_terminal_states yields a PrunedState and final_states filters it out
FinalStatesFilterPruned ==
    \E i \in Choices :
      /\ raised = "None"
      /\ pending[i].kind = "PrunedState"
      /\ state' = pending[i]
      /\ pruned_seen' = pruned_seen + 1
      /\ pending' = Replace(i, << >>)
      /\ UNCHANGED <<raised, randomized, yielded, interleave_vars>>

\* _find_terminal_states yields nothing for a MeasurePrunedState
FindTerminalStatesMeasurePruned ==
    \E i \in Choices :
      /\ raised = "None"
      /\ pending[i].kind = "MeasurePrunedState"
      /\ state' = pending[i]
      /\ pending' = Replace(i, << >>)
      /\ UNCHANGED <<raised, randomized, yielded, pruned_seen, interleave_vars>>

NextSearch ==
    \/ FindTerminalStatesExpand
    \/ FinalStatesYieldEnd
    \/ FinalStatesFilterPruned
    \/ FindTerminalStatesMeasurePruned

SpecSearch == InitSearch /\ [][NextSearch]_vars

(***************************************************************************)
(* Specification SpecInterleave: util.shuffled_interleave on its own, over *)
(* lists of items.  An iterator is the index of its input and the number   *)
(* of items taken from it; one step is one pass of the while loop          *)
(* (randomized = TRUE) or one item or one exhausted input of the for loop  *)
(* (randomized = FALSE).                                                   *)
(***************************************************************************)

\* The most inputs of one call, and the most items of all its inputs together
MaxIterables == 3

MaxTotalItems == 3

\* The items the inputs hold
Items == {"a", "b"}

\* The lists of at most n items
ItemLists(n) == UNION {[1..len -> Items] : len \in 0..n}

\* The number of items of a list of lists
RECURSIVE TotalItems(_)
TotalItems(lists) ==
    IF lists = << >> THEN 0 ELSE Len(lists[1]) + TotalItems(Tail(lists))

\* The arguments of shuffled_interleave
InterleaveInputs ==
    {its \in UNION {[1..n -> ItemLists(MaxTotalItems)] : n \in 0..MaxIterables} :
       TotalItems(its) <= MaxTotalItems}

\* iter(it): an iterator over the input of index id, nothing taken yet
Iter(id) == [id |-> id, pos |-> 0]

\* The iterator has no next item (next raises StopIteration)
Exhausted(it) == it.pos = Len(iterables[it.id])

\* The item next(it) returns
NextItem(it) == iterables[it.id][it.pos + 1]

InitInterleave ==
    /\ iterables \in InterleaveInputs
    /\ randomized \in BOOLEAN
    /\ active_iterators =
         (IF randomized THEN [k \in 1..Len(iterables) |-> Iter(k)] ELSE << >>)
    /\ cursor = Iter(1)
    /\ output = << >>
    /\ state = NONE
    /\ raised = "None"
    /\ pending = << >>
    /\ yielded = << >>
    /\ pruned_seen = 0

\* Mutant of active_iterators.remove(chosen_iter): the first iterator of the pool
\* is removed in place of the chosen one
RemoveIterator_first(c) == Tail(active_iterators)

\* active_iterators.remove(chosen_iter), chosen_iter being the c-th of the pool
RemoveIterator(c) ==
    SubSeq(active_iterators, 1, c - 1)
      \o SubSeq(active_iterators, c + 1, Len(active_iterators))

\* randomized: random.choice picks an iterator that has a next item, which is
\* yielded
ShuffledInterleaveYield ==
    /\ randomized
    /\ \E c \in 1..Len(active_iterators) :
         /\ ~Exhausted(active_iterators[c])
         /\ output' = Append(output, NextItem(active_iterators[c]))
         /\ active_iterators' = [active_iterators EXCEPT ![c].pos = @ + 1]
    /\ UNCHANGED <<iterables, cursor, randomized, state, raised, pending, yielded,
                   pruned_seen>>

\* randomized: random.choice picks an exhausted iterator, which is removed
ShuffledInterleaveRemove ==
    /\ randomized
    /\ \E c \in 1..Len(active_iterators) :
         /\ Exhausted(active_iterators[c])
         /\ active_iterators' = RemoveIterator(c)
    /\ UNCHANGED <<iterables, cursor, output, randomized, state, raised, pending,
                   yielded, pruned_seen>>

\* not randomized: yield from it yields the next item of the current input
ShuffledInterleaveOrderedYield ==
    /\ ~randomized
    /\ cursor.id <= Len(iterables)
    /\ ~Exhausted(cursor)
    /\ output' = Append(output, NextItem(cursor))
    /\ cursor' = [cursor EXCEPT !.pos = @ + 1]
    /\ UNCHANGED <<iterables, active_iterators, randomized, state, raised, pending,
                   yielded, pruned_seen>>

\* not randomized: the current input is exhausted and the for loop goes on
ShuffledInterleaveOrderedNext ==
    /\ ~randomized
    /\ cursor.id <= Len(iterables)
    /\ Exhausted(cursor)
    /\ cursor' = Iter(cursor.id + 1)
    /\ UNCHANGED <<iterables, active_iterators, output, randomized, state, raised,
                   pending, yielded, pruned_seen>>

NextInterleave ==
    \/ ShuffledInterleaveYield
    \/ ShuffledInterleaveRemove
    \/ ShuffledInterleaveOrderedYield
    \/ ShuffledInterleaveOrderedNext

SpecInterleave == InitInterleave /\ [][NextInterleave]_vars

(***************************************************************************)
(* Claims                                                                  *)
(***************************************************************************)

C4Pitch == PitchParse("C", 0, 4)

\* The input of the run: every state carries its cantus firmus and rhythm type
CantusFirmus == state.global_ctx.cantus_firmus

RythmnType == state.global_ctx.rythmn_type

CompletedMeasures == state.global_ctx.completed_measures

\* C1: every realization yielded by generate / final_states (an EndState) has
\* exactly len(cantus_firmus) realized measures, and the note durations of every
\* realized measure sum to 4 quarter-note units, under every rhythm type.
C1_MeasuresComplete ==
    state.kind = "EndState" =>
      /\ Len(CompletedMeasures) = Len(CantusFirmus)
      /\ \A k \in 1..Len(CompletedMeasures) :
           SumDurations(CompletedMeasures[k].annotated_notes) = 4

\* C1 witness: a yielded quarter-note realization of several measures whose first
\* measure starts with the leading rest
C1_Witness ==
    /\ state.kind = "EndState"
    /\ RythmnType = "QUATER_NOTE"
    /\ Len(CompletedMeasures) >= 2
    /\ CompletedMeasures[1].annotated_notes[1].note.pitch = NONE
    /\ Len(CompletedMeasures[Len(CompletedMeasures)].annotated_notes) = 1

\* C2: when a PrunedState reaches the top level, the driver discards the attempt
\* and restarts the search from the start state: right after a PrunedState is
\* taken, the only pending work is the start state.
C2_PrunedRestartsSearch ==
    state.kind = "PrunedState" =>
      pending = <<start_state(CantusFirmus, RythmnType)>>

\* C2 witness: a PrunedState has been taken and filtered, and the driver goes on
\* with the remaining branches of the same tree
C2_Witness ==
    /\ state.kind = "PrunedState"
    /\ pruned_seen = 1
    /\ pending # << >>
    /\ pending[1] # start_state(CantusFirmus, RythmnType)

\* C3: for the cantus firmus [C4] under quarter-note rhythm the search raises no
\* exception, and the measure it builds begins with a rest followed by a start
\* pitch from {C4, G4, C5, G5}.
C3_SinglePitchCantusFirmus ==
    (CantusFirmus = <<C4Pitch>> /\ RythmnType = "QUATER_NOTE") =>
      /\ raised = "None"
      /\ (state.local_ctx # NONE /\ state.local_ctx.note_buffer # << >>) =>
           /\ Len(state.local_ctx.note_buffer) >= 2
           /\ state.local_ctx.note_buffer[1].note.pitch = NONE
           /\ state.local_ctx.note_buffer[2].note.pitch \in
                {PitchParse("C", 0, 4), PitchParse("G", 0, 4),
                 PitchParse("C", 0, 5), PitchParse("G", 0, 5)}

\* C3 witness: the search on [C4] under quarter-note rhythm is in the End-Note
\* search with an empty buffer, where it raises ValueError
C3_Witness ==
    /\ CantusFirmus = <<C4Pitch>>
    /\ RythmnType = "QUATER_NOTE"
    /\ state.kind = "SearchingEndNoteState"
    /\ state.local_ctx.note_buffer = << >>
    /\ raised = "ValueError"

\* C4: when no valid realization exists the restart-on-Pruned loop can run
\* forever: a search that has met a PrunedState and yielded nothing never runs
\* out of pending work.
C4_RestartLoopNeverExhausts ==
    (pruned_seen > 0 /\ yielded = << >>) => pending # << >>

\* C4 witness: the whole tree has been searched, every complete piece was a
\* PrunedState, nothing was yielded, and the iteration has ended
C4_Witness ==
    /\ pending = << >>
    /\ yielded = << >>
    /\ pruned_seen >= 2
    /\ raised = "None"

\* The diatonic steps from pitch a up to pitch b (negative downward)
StepsBetween(a, b) == IntervalStepOf(PitchSub(b, a))

\* The interval between a cantus firmus pitch and a counterpoint pitch is a perfect
\* fifth, or a perfect unison or octave, compound or not
IsPerfectFifth(x, a) ==
    Abs(Num(a) - Num(x)) % 12 = 7 /\ Abs(StepsBetween(x, a)) % 7 = 4

IsPerfectOctave(x, a) ==
    Abs(Num(a) - Num(x)) % 12 = 0 /\ Abs(StepsBetween(x, a)) % 7 = 0

\* Across a barline the counterpoint goes from a to b over the cantus firmus going
\* from x to y: both move, in the same direction, from a perfect fifth to a perfect
\* fifth or from a perfect unison/octave to a perfect unison/octave
ParallelPerfect(x, y, a, b) ==
    /\ a # NONE /\ b # NONE
    /\ Num(a) # Num(b) /\ Num(x) # Num(y)
    /\ (Num(b) > Num(a)) = (Num(y) > Num(x))
    /\ \/ IsPerfectFifth(x, a) /\ IsPerfectFifth(y, b)
       \/ IsPerfectOctave(x, a) /\ IsPerfectOctave(y, b)

\* The last pitch of a list of notes, the first pitch of a list of notes
LastPitch(notes) == notes[Len(notes)].note.pitch

FirstPitch(notes) == notes[1].note.pitch

\* C5: no measure is ever accepted, and so no realization is ever yielded, in
\* which across a barline the counterpoint and the cantus firmus move in the same
\* direction from a perfect fifth to a perfect fifth or from a perfect
\* unison/octave to a perfect unison/octave: the measure validator rejects every
\* measure completing such a pair.
C5_NoParallelPerfects ==
    \A k \in 1..(Len(CompletedMeasures) - 1) :
      ~ParallelPerfect(CantusFirmus[k], CantusFirmus[k + 1],
                       LastPitch(CompletedMeasures[k].annotated_notes),
                       FirstPitch(CompletedMeasures[k + 1].annotated_notes))

\* C5 witness: a full measure completing such a pair with the measure before it
\* was handed to the measure validator and pruned
C5_Witness ==
    /\ state.kind = "MeasurePrunedState"
    /\ ~state.local_ctx.is_first_measure
    /\ ParallelPerfect(state.local_ctx.previous_cf, state.local_ctx.current_cf,
                       LastPitch(state.local_ctx.previous_measure.annotated_notes),
                       FirstPitch(state.local_ctx.note_buffer))
    /\ IsPerfectFifth(state.local_ctx.current_cf, FirstPitch(state.local_ctx.note_buffer))

\* The forbidden arpeggio outlines: the steps of the second and the third pitch
\* from the first (a 3rd is 2 steps), upward or downward
ForbiddenOutlines ==
    {<<2, 4>>, <<2, 5>>, <<3, 5>>, <<4, 7>>, <<3, 7>>,
     <<-2, -4>>, <<-2, -5>>, <<-3, -5>>, <<-4, -7>>, <<-3, -7>>}

\* The sounding pitches of the realized voice so far, in order
SoundingPitches == AllPitches(CompletedMeasures)

\* The pitches at k, k + 1, k + 2 outline a forbidden arpeggio
OutlinesArpeggio(pitches, k) ==
    <<StepsBetween(pitches[k], pitches[k + 1]),
      StepsBetween(pitches[k], pitches[k + 2])>> \in ForbiddenOutlines

\* C6: in every yielded realization, under every rhythm type, no three
\* consecutive sounding pitches of the counterpoint, within a measure or across
\* barlines, outline a forbidden arpeggio.
C6_NoArpeggioOutline ==
    state.kind = "EndState" =>
      \A k \in 1..(Len(SoundingPitches) - 2) : ~OutlinesArpeggio(SoundingPitches, k)

\* C6 witness: a yielded whole-note realization of three measures whose three
\* notes descend through a 3rd and a 5th
C6_Witness ==
    /\ state.kind = "EndState"
    /\ RythmnType = "WHOLE_NOTE"
    /\ Len(SoundingPitches) = 3
    /\ StepsBetween(SoundingPitches[1], SoundingPitches[2]) = -2
    /\ StepsBetween(SoundingPitches[1], SoundingPitches[3]) = -4

\* The widest distance in steps between two sounding pitches of the realized voice
Span ==
    CHOOSE d \in {StepsBetween(SoundingPitches[i], SoundingPitches[j]) :
                    i, j \in 1..Len(SoundingPitches)} :
      \A i, j \in 1..Len(SoundingPitches) :
        StepsBetween(SoundingPitches[i], SoundingPitches[j]) <= d

\* C7: every yielded realization spans at most an 11th between its lowest and its
\* highest sounding pitch (10 steps above the lowest), and every completed piece
\* spanning more is a PrunedState, which final_states never yields.
C7_TotalRange ==
    /\ state.kind = "EndState" => Span <= 10
    /\ state.kind = "PrunedState" => Span > 10

\* C7 witness: a completed piece spanning a 12th has become a PrunedState
C7_Witness == state.kind = "PrunedState" /\ Span = 11

\* The lowest and the highest pitch of the realizing (soprano) voice
InVoiceRange(p) ==
    Num(PitchParse("C", 0, 4)) <= Num(p) /\ Num(p) <= Num(PitchParse("A", 0, 5))

\* C8: every pitch a move generator places in a note buffer or in
\* next_measure_mark lies within the voice range C4..A5.
C8_PitchesInRange ==
    state.local_ctx # NONE =>
      /\ \A k \in 1..Len(state.local_ctx.note_buffer) :
           state.local_ctx.note_buffer[k].note.pitch # NONE =>
             InVoiceRange(state.local_ctx.note_buffer[k].note.pitch)
      /\ state.local_ctx.next_measure_mark # NONE =>
           InVoiceRange(state.local_ctx.next_measure_mark)

\* C8 witness: a passing run across the barline has put passing tones in the
\* buffer and its target in next_measure_mark
C8_Witness ==
    /\ state.local_ctx # NONE
    /\ state.local_ctx.next_measure_mark # NONE
    /\ Len(state.local_ctx.note_buffer) >= 2
    /\ LET n == Len(state.local_ctx.note_buffer)
       IN  /\ state.local_ctx.note_buffer[n].tone_type = "PASSING_TONE"
           /\ state.local_ctx.note_buffer[n - 1].tone_type = "PASSING_TONE"

\* The pitch each returned context appends last to the note buffer
CandidatePitches(result) ==
    [k \in 1..Len(result.ctxs) |->
       LastPitch(result.ctxs[k].note_buffer)]

\* The Harmonic-Tone search over cantus firmus C4 in the first measure, with the
\* buffer [rest, G4] and no mark pending
HarmonicAfterG4 ==
    /\ state.kind = "SearchingHarmonicNoteInMeasureState"
    /\ state.local_ctx.current_cf = C4Pitch
    /\ state.local_ctx.is_first_measure
    /\ state.local_ctx.next_measure_mark = NONE
    /\ Len(state.local_ctx.note_buffer) = 2
    /\ state.local_ctx.note_buffer[1].note.pitch = NONE
    /\ state.local_ctx.note_buffer[2].note.pitch = PitchParse("G", 0, 4)

LegalMelodicInterval(a, b) ==
    <<Abs(StepsBetween(a, b)), Abs(Num(b) - Num(a))>> \in
      {<<1, 1>>, <<1, 2>>, <<2, 3>>, <<2, 4>>, <<3, 5>>, <<4, 7>>, <<5, 8>>, <<7, 12>>}

\* The pitch a number of octaves above another
OctavesAbove(p, n) == Pitch(p.octave + n, p.note_name)

\* The End-Note candidates the claim describes when no mark is pending
ExpectedEndPitches(cf, previous_pitch) ==
    SelectSeq(<<cf, OctavesAbove(cf, 1), OctavesAbove(cf, 2)>>,
              LAMBDA p : InVoiceRange(p) /\ LegalMelodicInterval(previous_pitch, p))

\* The End-Note search with a mark pending, or with a sounding pitch before it
EndNoteSearch ==
    /\ state.kind = "SearchingEndNoteState"
    /\ \/ state.local_ctx.next_measure_mark # NONE
       \/ ~state.local_ctx.is_first_measure

FifthAbove(p) == Pitch(p.octave, p.note_name + 1)

\* The Start-Note candidates the claim describes: unison, fifth, octave, twelfth
\* and fifteenth above the cantus firmus, those in the voice range, in this order
ExpectedStartPitches(cf) ==
    SelectSeq(<<cf, FifthAbove(cf), OctavesAbove(cf, 1),
                OctavesAbove(FifthAbove(cf), 1), OctavesAbove(cf, 2)>>,
              LAMBDA p : InVoiceRange(p))

\* The buffer a Start-Note candidate holds for a pitch: the pitch alone as a whole
\* note under whole-note rhythm, else a rest and the pitch, one rhythmic unit each
ExpectedStartBuffer(pitch, rythmn_type) ==
    LET unit == CASE rythmn_type = "QUATER_NOTE" -> 1
                  [] rythmn_type = "HALF_NOTE" -> 2
                  [] rythmn_type = "WHOLE_NOTE" -> 4
        note(p) == [note |-> [pitch |-> p, duration |-> unit],
                    tone_type |-> "HARMONIC_TONE"]
    IN  IF rythmn_type = "WHOLE_NOTE" THEN <<note(pitch)>>
        ELSE <<note(NONE), note(pitch)>>

\* C11: the Start-Note generator returns one candidate per pitch a perfect unison,
\* fifth, octave, twelfth or fifteenth above the first cantus firmus pitch that lies
\* in the voice range, in that order; each candidate's buffer is [rest, pitch], both
\* one rhythmic unit long and tagged Harmonic ([pitch] as a whole note under
\* whole-note rhythm), with is_root_chord true and no mark; cantus firmus C4 under
\* quarter-note rhythm gives exactly C4, G4, C5, G5.
C11_StartNoteCandidates ==
    state.kind = "SearchingStartNoteState" =>
      LET result == StartNoteNextCtxs(state.local_ctx)
          expected == ExpectedStartPitches(CantusFirmus[1])
      IN  /\ result.error = "None"
          /\ Len(result.ctxs) = Len(expected)
          /\ \A k \in 1..Len(expected) :
               /\ result.ctxs[k].note_buffer =
                    ExpectedStartBuffer(expected[k], RythmnType)
               /\ result.ctxs[k].is_root_chord = "True"
               /\ result.ctxs[k].next_measure_mark = NONE
          /\ (CantusFirmus[1] = C4Pitch /\ RythmnType = "QUATER_NOTE") =>
               CandidatePitches(result) =
                 <<PitchParse("C", 0, 4), PitchParse("G", 0, 4),
                   PitchParse("C", 0, 5), PitchParse("G", 0, 5)>>

\* C11 witness: the Start-Note search over cantus firmus C4 under quarter-note
\* rhythm, which has returned four candidates and raised nothing
C11_Witness ==
    /\ state.kind = "SearchingStartNoteState"
    /\ CantusFirmus[1] = C4Pitch
    /\ RythmnType = "QUATER_NOTE"
    /\ Len(StartNoteNextCtxs(state.local_ctx).ctxs) = 4
    /\ raised = "None"

\* The classes of the children the claim gives ChooseSearch, by priority
ExpectedChildKinds(local_ctx) ==
    IF SumDurations(local_ctx.note_buffer) = 4 THEN <<"ValidatingInMeasureState">>
    ELSE IF local_ctx.is_last_measure THEN <<"SearchingEndNoteState">>
    ELSE IF local_ctx.is_first_measure /\ local_ctx.note_buffer = << >>
      THEN <<"SearchingStartNoteState">>
    ELSE <<"SearchingHarmonicNoteInMeasureState",
           "SearchingPassingNoteInMeasureState",
           "SearchingNeighborNoteInMeasureState">>

\* C12: ChooseSearch dispatches on its local context by priority: buffer full ->
\* exactly one ValidatingInMeasure child; else last measure -> exactly one
\* SearchingEndNote child (also when the measure is both first and last); else
\* first measure with an empty buffer -> exactly one SearchingStartNote child;
\* otherwise exactly the children SearchingHarmonic, SearchingPassing and
\* SearchingNeighbor, in that order; every child carries the same contexts.
C12_ChooseSearchDispatch ==
    state.kind = "ChooseSearchState" =>
      LET result == ChooseSearchNextStates(state)
          expected == ExpectedChildKinds(state.local_ctx)
      IN  /\ result.error = "None"
          /\ Len(result.states) = Len(expected)
          /\ \A k \in 1..Len(expected) :
               /\ result.states[k].kind = expected[k]
               /\ result.states[k].global_ctx = state.global_ctx
               /\ result.states[k].local_ctx = state.local_ctx

\* C12 witness: a ChooseSearch state in the first measure past its first beat, not
\* the last measure and not yet full, whose children are the three in-measure
\* searches
C12_Witness ==
    /\ state.kind = "ChooseSearchState"
    /\ state.local_ctx.is_first_measure
    /\ ~state.local_ctx.is_last_measure
    /\ state.local_ctx.note_buffer # << >>
    /\ SumDurations(state.local_ctx.note_buffer) < 4
    /\ Len(ChooseSearchNextStates(state).states) = 3

\* The fresh local context the claim describes for the measure after n completed
\* ones: empty buffer, chord undecided, the carried mark, the cantus firmus
\* pointers one measure on, the measure just completed as the previous one
FreshLocalContext(local_ctx, cantus_firmus, n, measure, mark) ==
    /\ local_ctx.note_buffer = << >>
    /\ local_ctx.is_root_chord = "None"
    /\ local_ctx.next_measure_mark = mark
    /\ local_ctx.previous_cf = cantus_firmus[n]
    /\ local_ctx.current_cf = cantus_firmus[n + 1]
    /\ local_ctx.next_measure_cf =
         (IF n + 2 <= Len(cantus_firmus) THEN cantus_firmus[n + 2] ELSE NONE)
    /\ local_ctx.previous_measure = measure
    /\ local_ctx.is_first_measure = FALSE
    /\ local_ctx.is_last_measure = (n + 1 = Len(cantus_firmus))
    /\ local_ctx.is_next_last_measure = (n + 2 = Len(cantus_firmus))

\* The step the claim describes from a ValidatingInMeasure state
ValidatingInMeasureStep ==
    state.kind = "ValidatingInMeasureState" =>
      IF validate(state.local_ctx)
        THEN LET measure == [annotated_notes |-> state.local_ctx.note_buffer]
                 n == Len(state.global_ctx.completed_measures) + 1
             IN  /\ state'.global_ctx.completed_measures =
                      Append(state.global_ctx.completed_measures, measure)
                 /\ state'.global_ctx.next_measure_mark =
                      state.local_ctx.next_measure_mark
                 /\ state'.global_ctx.cantus_firmus = state.global_ctx.cantus_firmus
                 /\ state'.global_ctx.rythmn_type = state.global_ctx.rythmn_type
                 /\ IF n = Len(state.global_ctx.cantus_firmus)
                      THEN state'.kind = "ValidatingAllMeasureState"
                    ELSE /\ state'.kind = "ChooseSearchState"
                         /\ FreshLocalContext(state'.local_ctx,
                                              state.global_ctx.cantus_firmus, n, measure,
                                              state.local_ctx.next_measure_mark)
      ELSE /\ state'.kind = "MeasurePrunedState"
           /\ state'.global_ctx = state.global_ctx

\* C13: from ValidatingInMeasure with a full buffer that passes the measure
\* validator, the single successor has the old completed measures plus exactly the
\* buffered measure and the local context's mark as next_measure_mark; it is
\* ValidatingAllMeasure iff the completed measures now number the cantus firmus
\* length, otherwise ChooseSearch with a fresh local context (empty buffer, chord
\* undecided, the carried mark, cantus firmus pointers advanced by one measure). If
\* validation fails the single successor is MeasurePruned with the global context
\* unchanged.
C13_ValidatingInMeasureSuccessor == [][ValidatingInMeasureStep]_vars

\* C13 witness: a ChooseSearch state entered from an accepted measure that was not
\* the last, with a fresh local context that carries a mark
C13_Witness ==
    /\ state.kind = "ChooseSearchState"
    /\ Len(CompletedMeasures) >= 1
    /\ state.local_ctx.note_buffer = << >>
    /\ state.local_ctx.next_measure_mark # NONE
    /\ state.local_ctx.previous_measure = CompletedMeasures[Len(CompletedMeasures)]

\* One step of the driver as the claim describes it, state' being the state the
\* step has taken from the frontier: a leaf leaves the frontier without children;
\* only an EndState is passed on by final_states; only a PrunedState is the other
\* thing _find_terminal_states yields; a MeasurePrunedState yields nothing
LeafStep ==
    /\ state'.kind \in {"EndState", "PrunedState", "MeasurePrunedState"} =>
         /\ Len(pending') = Len(pending) - 1
         /\ raised' = raised
    /\ yielded' # yielded =>
         /\ state'.kind = "EndState"
         /\ yielded' = Append(yielded, state'.global_ctx.completed_measures)
    /\ pruned_seen' # pruned_seen =>
         /\ state'.kind = "PrunedState"
         /\ pruned_seen' = pruned_seen + 1
    /\ state'.kind = "EndState" => yielded' # yielded
    /\ state'.kind = "PrunedState" => yielded' = yielded /\ pruned_seen' # pruned_seen
    /\ state'.kind = "MeasurePrunedState" =>
         yielded' = yielded /\ pruned_seen' = pruned_seen

\* C14: the tree walk treats End, Pruned and MeasurePruned as leaves: next_states
\* is never called on them, so their RuntimeError("not called") is never raised;
\* a MeasurePruned leaf is dropped without being yielded; _find_terminal_states
\* yields only End and Pruned states, and final_states yields only End states.
C14_TerminalStatesAreLeaves == [](raised # "RuntimeError") /\ [][LeafStep]_vars

\* C14 witness: the driver has just dropped a MeasurePruned leaf, after it has
\* yielded an EndState and filtered a PrunedState, and goes on
C14_Witness ==
    /\ state.kind = "MeasurePrunedState"
    /\ yielded # << >>
    /\ pruned_seen > 0
    /\ pending # << >>
    /\ raised = "None"

\* The realizations below a state in depth-first order: those reached through an
\* earlier child before those reached through a later child, the children in the
\* order next_states yields them
RECURSIVE Realizations(_)
Realizations(s) ==
    IF s.kind = "EndState" THEN <<s.global_ctx.completed_measures>>
    ELSE IF s.kind \in {"PrunedState", "MeasurePrunedState"} THEN << >>
    ELSE LET children == next_states(s).states
         IN  Flatten([k \in 1..Len(children) |-> Realizations(children[k])])

\* A step of an ordered search that yields: what has been yielded is the beginning
\* of the depth-first list of the realizations of the tree
OrderedYieldStep ==
    (~randomized /\ yielded' # yielded) =>
      LET all == Realizations(start_state(CantusFirmus, RythmnType))
      IN  /\ Len(yielded') <= Len(all)
          /\ yielded' = SubSeq(all, 1, Len(yielded'))

\* An ordered search that has ended has yielded the whole depth-first list
OrderedSearchComplete ==
    (~randomized /\ pending = << >> /\ raised = "None") =>
      yielded = Realizations(start_state(CantusFirmus, RythmnType))

\* C15: with randomized = False, final_states yields the EndStates in pure
\* depth-first order: every realization reached through a node's earlier child is
\* yielded before any reached through a later child, the children in the order
\* next_states yields them, so what has been yielded is always the beginning of the
\* depth-first list of the tree and the whole list once the iteration has ended;
\* the sequence is a function of the cantus firmus and the rhythm type, so repeated
\* runs yield the same sequence.
C15_DepthFirstOrder == []OrderedSearchComplete /\ [][OrderedYieldStep]_vars

\* C15 witness: an ordered search has ended after it yielded realizations that
\* begin in different first measures
C15_Witness ==
    /\ ~randomized
    /\ pending = << >>
    /\ raised = "None"
    /\ Len(yielded) >= 3
    /\ yielded[1][1] # yielded[Len(yielded)][1]
    /\ Len(CantusFirmus) >= 2

\* The output is a merge of the lists: every item of every list exactly once, the
\* items of one list in their order
RECURSIVE IsMerge(_, _)
IsMerge(out, lists) ==
    IF out = << >> THEN \A k \in 1..Len(lists) : lists[k] = << >>
    ELSE \E k \in 1..Len(lists) :
           /\ lists[k] # << >>
           /\ Head(lists[k]) = Head(out)
           /\ IsMerge(Tail(out), [lists EXCEPT ![k] = Tail(@)])

\* The items taken so far from each input of a randomized call: all of an input
\* that has left the pool
TakenItems ==
    [k \in 1..Len(iterables) |->
       IF \E c \in 1..Len(active_iterators) : active_iterators[c].id = k
         THEN LET c == CHOOSE c \in 1..Len(active_iterators) :
                         active_iterators[c].id = k
              IN  SubSeq(iterables[k], 1, active_iterators[c].pos)
       ELSE iterables[k]]

\* The inputs one after the other
RECURSIVE Concatenated(_)
Concatenated(lists) ==
    IF lists = << >> THEN << >> ELSE Head(lists) \o Concatenated(Tail(lists))

\* The call has returned
InterleaveDone ==
    IF randomized THEN active_iterators = << >> ELSE cursor.id > Len(iterables)

\* What has been yielded: with randomized = True a merge of what was taken from
\* the inputs, a merge of the inputs once the call has returned; with
\* randomized = False the beginning of the concatenation, and all of it at the end
InterleaveOutput ==
    /\ randomized => IsMerge(output, TakenItems)
    /\ (randomized /\ InterleaveDone) => IsMerge(output, iterables)
    /\ ~randomized =>
         /\ Len(output) <= Len(Concatenated(iterables))
         /\ output = SubSeq(Concatenated(iterables), 1, Len(output))
    /\ (~randomized /\ InterleaveDone) => output = Concatenated(iterables)

\* The steps done so far, which no run can exceed: one per item and one per input
InterleaveProgress ==
    Len(output) + (IF randomized THEN Len(iterables) - Len(active_iterators)
                   ELSE cursor.id - 1)

\* One step: it makes progress, and an iterator leaves the pool only when it is
\* exhausted, nothing being yielded then
InterleaveStep ==
    /\ InterleaveProgress' = InterleaveProgress + 1
    /\ InterleaveProgress' <= TotalItems(iterables) + Len(iterables)
    /\ Len(active_iterators') < Len(active_iterators) =>
         /\ output' = output
         /\ \E c \in 1..Len(active_iterators) :
              /\ active_iterators[c].pos = Len(iterables[active_iterators[c].id])
              /\ \A d \in 1..Len(active_iterators') :
                   active_iterators'[d] =
                     active_iterators[IF d < c THEN d ELSE d + 1]

\* C16: for any finite inputs and any outcome of the random choices,
\* shuffled_interleave with randomized = True terminates (every step makes progress
\* towards a bound) and yields a merge of its inputs: every item of every input
\* exactly once, the items of one input in their order; an input leaves the pool
\* only after it was found exhausted. With randomized = False the output is the
\* inputs concatenated in their order.
C16_ShuffledInterleaveMerge == []InterleaveOutput /\ [][InterleaveStep]_vars

\* C16 witness: a randomized call has returned after it yielded an item of the
\* second input between the two items of the first
C16_Witness ==
    /\ randomized
    /\ InterleaveDone
    /\ iterables = <<<<"a", "a">>, <<"b">>>>
    /\ output = <<"a", "b", "a">>

\* The pitch sequence of the claim: the sounding pitches of the last two notes of
\* the previous measure, then those of the note buffer
MelodyPitches(local_ctx) ==
    LET prev == IF local_ctx.previous_measure = NONE THEN << >>
                ELSE local_ctx.previous_measure.annotated_notes
        tail == IF Len(prev) <= 2 THEN prev ELSE <<prev[Len(prev) - 1], prev[Len(prev)]>>
        notes == SelectSeq(tail \o local_ctx.note_buffer,
                           LAMBDA an : an.note.pitch # NONE)
    IN  [k \in 1..Len(notes) |-> notes[k].note.pitch]

\* Three consecutive pitches of the sequence have, from the first of them, steps
\* of one of the given outlines (a 3rd is 2 steps) or of its downward mirror
HasOutline(pitches, outlines) ==
    \E k \in 1..(Len(pitches) - 2) :
      \E o \in outlines :
        LET s1 == StepsBetween(pitches[k], pitches[k + 1])
            s2 == StepsBetween(pitches[k], pitches[k + 2])
        IN  <<s1, s2>> = o \/ <<-s1, -s2>> = o

\* C17: for a completed measure validate_melody_arpeggiio returns False exactly
\* when the pitch sequence formed by the previous measure's last two notes followed
\* by the note buffer contains three consecutive pitches with steps from the first
\* of (3rd, 5th), (3rd, 6th) or (4th, 6th), upward or mirrored downward, as in
\* [C4, E4, G4]; validate_melody_arpeggiio_extra returns False exactly when it
\* contains a window with steps (5th, 8th) or (4th, 8th) or their mirrors, as in
\* [C4, G4, C5]; a sequence with no such window passes both.
C17_ArpeggioRules ==
    state.kind = "ValidatingInMeasureState" =>
      /\ validate_melody_arpeggiio(state.local_ctx) =
           ~HasOutline(MelodyPitches(state.local_ctx), {<<2, 4>>, <<2, 5>>, <<3, 5>>})
      /\ validate_melody_arpeggiio_extra(state.local_ctx) =
           ~HasOutline(MelodyPitches(state.local_ctx), {<<4, 7>>, <<3, 7>>})

\* C17 witness: a completed measure whose first pitch follows the last two notes
\* of the previous measure as C4, E4, G4 do, which validate_melody_arpeggiio
\* rejects
C17_Witness ==
    /\ state.kind = "ValidatingInMeasureState"
    /\ state.local_ctx.previous_measure # NONE
    /\ Len(MelodyPitches(state.local_ctx)) >= 3
    /\ LET pitches == MelodyPitches(state.local_ctx)
       IN  /\ pitches[1] = PitchParse("C", 0, 4)
           /\ pitches[2] = PitchParse("E", 0, 4)
           /\ pitches[3] = PitchParse("G", 0, 4)
           /\ pitches[3] = FirstPitch(state.local_ctx.note_buffer)
    /\ ~validate_melody_arpeggiio(state.local_ctx)

\* The offsets at which the answer of offset_note_at changes: the onsets recovered
\* from the queries at 0, 1, ... below the total duration
RecoveredOnsets(measure, total) ==
    {o \in 0..(total - 1) :
       o = 0 \/ offset_note_at(measure, o) # offset_note_at(measure, o - 1)}

\* The note sequence rebuilt from the answers: at each recovered onset the note
\* answered, or a rest lasting up to the next recovered onset
RebuiltNotes(measure, total) ==
    LET onsets == RecoveredOnsets(measure, total)
        nth(n) == CHOOSE o \in onsets : Cardinality({t \in onsets : t < o}) = n - 1
        until(o) == IF \E t \in onsets : t > o
                      THEN CHOOSE t \in onsets :
                             t > o /\ \A u \in onsets : u > o => t <= u
                    ELSE total
    IN  [n \in 1..Cardinality(onsets) |->
           IF offset_note_at(measure, nth(n)) = NONE
             THEN [pitch |-> NONE, duration |-> until(nth(n)) - nth(n)]
           ELSE offset_note_at(measure, nth(n)).annotated_note.note]

\* The queries on one measure, as the claim describes them
OffsetQueriesRebuild(measure) ==
    LET total == SumDurations(measure.annotated_notes)
    IN  /\ \A o \in 0..(total - 1) :
             LET answer == offset_note_at(measure, o)
             IN  /\ answer # OFFSET_OUT_OF_BOUNDS
                 /\ answer # NONE =>
                      /\ answer.annotated_note.note.pitch # NONE
                      /\ answer.onset <= o
                      /\ o < answer.onset + answer.annotated_note.note.duration
        /\ RebuiltNotes(measure, total) =
             [k \in 1..Len(measure.annotated_notes) |-> measure.annotated_notes[k].note]

\* C18: for every AnnotatedMeasure the generators have built, the query for the
\* note sounding at offset O, for every O from 0 up to but excluding the measure's
\* total duration, never raises and returns either a pitch with the onset of its
\* note or an explicit rest, and the onsets recovered from the queries rebuild
\* exactly the original note sequence.
C18_OffsetQueries ==
    \A k \in 1..Len(CompletedMeasures) : OffsetQueriesRebuild(CompletedMeasures[k])

\* C18 witness: a completed first measure under half-note rhythm, whose leading
\* rest is answered at offsets 0 and 1 and whose note at offsets 2 and 3
C18_Witness ==
    /\ Len(CompletedMeasures) >= 1
    /\ RythmnType = "HALF_NOTE"
    /\ offset_note_at(CompletedMeasures[1], 0) = NONE
    /\ offset_note_at(CompletedMeasures[1], 1) = NONE
    /\ offset_note_at(CompletedMeasures[1], 3) # NONE
    /\ offset_note_at(CompletedMeasures[1], 3).onset = 2
    /\ RecoveredOnsets(CompletedMeasures[1], 4) = {0, 2}

\* The states of the two non-harmonic generators
NonHarmonicKinds ==
    {"SearchingPassingNoteInMeasureState", "SearchingNeighborNoteInMeasureState"}

\* The applicability precondition of the non-harmonic generators: not the last
\* measure, not the first beat of the measure, no cross-measure mark pending
NonHarmonicApplicable(local_ctx) ==
    /\ ~local_ctx.is_last_measure
    /\ current_offset(local_ctx) # 0
    /\ local_ctx.next_measure_mark = NONE

\* The candidates of the non-harmonic generator of state s
NonHarmonicNextCtxs(s) ==
    IF s.kind = "SearchingPassingNoteInMeasureState" THEN PassingNextCtxs(s.local_ctx)
    ELSE NeighborNextCtxs(s.local_ctx)

NotApplicableReturnsNothing ==
    (state.kind \in NonHarmonicKinds /\ ~NonHarmonicApplicable(state.local_ctx))
      => NonHarmonicNextCtxs(state) = Return(<< >>)

\* The generators are entered from the ChooseSearch dispatch only, on its context,
\* in its last branch; they are left for a candidate only where the precondition holds
NonHarmonicStep ==
    /\ (state'.kind \in NonHarmonicKinds /\ state' # state) =>
         /\ state.kind = "ChooseSearchState"
         /\ state'.local_ctx = state.local_ctx
         /\ state'.global_ctx = state.global_ctx
         /\ ~is_buffer_fulfilled(state.local_ctx)
         /\ ~state.local_ctx.is_last_measure
         /\ ~(state.local_ctx.is_first_measure /\ current_offset(state.local_ctx) = 0)
    /\ (state.kind \in NonHarmonicKinds /\ state' # state) =>
         NonHarmonicApplicable(state.local_ctx)

ReducedDiatonicStep(p, q) ==
    Abs((4 * q.note_name + 7 * q.octave) - (4 * p.note_name + 7 * p.octave)) % 7

\* The candidate the claim describes for a pending mark: the mark appended as a
\* harmonic tone of one rhythmic unit, the mark cleared, is_root_chord from the step
MarkCandidate(local_ctx) ==
    LET mark == local_ctx.next_measure_mark
        step == ReducedDiatonicStep(local_ctx.current_cf, mark)
    IN  [local_ctx EXCEPT
           !.note_buffer =
               Append(@, [note |-> [pitch |-> mark,
                                    duration |-> NoteDuration(local_ctx.rythmn_type)],
                          tone_type |-> "HARMONIC_TONE"]),
           !.next_measure_mark = NONE,
           !.is_root_chord = CASE step = 4 -> "True"
                               [] step = 5 -> "False"
                               [] step \in {0, 2} -> "None"
                               [] OTHER -> "Undefined"]

\* C20: when a cross-measure mark is pending, the Harmonic-Tone generator returns
\* exactly one candidate, which appends the marked pitch (tagged Harmonic, one
\* rhythmic unit long) and clears the mark, with is_root_chord derived from the
\* octave-reduced diatonic step between the current cantus firmus and the mark
\* (5th -> true, 6th -> false, unison or 3rd -> null); the previous pitch and the
\* melodic-interval filter play no role.
C20_HarmonicWithMark ==
    (state.kind = "SearchingHarmonicNoteInMeasureState"
       /\ state.local_ctx.next_measure_mark # NONE)
      => HarmonicNextCtxs(state.local_ctx) = Return(<<MarkCandidate(state.local_ctx)>>)

\* C20 witness: the Harmonic-Tone generator with a mark pending a 6th (octave-reduced)
\* from the cantus firmus, whose one candidate is in first inversion
C20_Witness ==
    /\ state.kind = "SearchingHarmonicNoteInMeasureState"
    /\ state.local_ctx.next_measure_mark # NONE
    /\ ReducedDiatonicStep(state.local_ctx.current_cf,
                           state.local_ctx.next_measure_mark) = 5
    /\ Len(HarmonicNextCtxs(state.local_ctx).ctxs) = 1
    /\ HarmonicNextCtxs(state.local_ctx).ctxs[1].is_root_chord = "False"
    /\ HarmonicNextCtxs(state.local_ctx).ctxs[1].next_measure_mark = NONE

\* The position of a pitch on the staff, in diatonic steps
DiatonicPos(p) == 4 * p.note_name + 7 * p.octave

\* The pitch of C major at a staff position
InKeyAt(pos) ==
    CHOOSE p \in {Pitch(o, n) : o \in (-4)..10, n \in (-1)..5} : DiatonicPos(p) = pos

\* The stepwise runs the claim lists for the beat of the next note: the interval
\* spanned (3 = a 3rd) and whether the target lies beyond the barline
PassingRuns(offset, rythmn_type) ==
    CASE rythmn_type = "QUATER_NOTE" /\ offset = 1 ->
           {[span |-> 3, crossing |-> FALSE], [span |-> 4, crossing |-> FALSE],
            [span |-> 5, crossing |-> TRUE]}
      [] rythmn_type = "QUATER_NOTE" /\ offset = 2 ->
           {[span |-> 3, crossing |-> FALSE], [span |-> 4, crossing |-> TRUE]}
      [] rythmn_type = "QUATER_NOTE" /\ offset = 3 ->
           {[span |-> 3, crossing |-> TRUE]}
      [] rythmn_type = "HALF_NOTE" /\ offset = 2 ->
           {[span |-> 3, crossing |-> TRUE]}
      [] OTHER -> {}

\* The legal harmonic tones for the target of a run
LegalPassingTargets(local_ctx, crossing) ==
    IF ~crossing
      THEN {c.pitch : c \in SeqToSet(available_harmonic_pitches_with_chord(local_ctx))}
    ELSE IF local_ctx.is_next_last_measure
      THEN SeqToSet(end_available_pitches(local_ctx, local_ctx.next_measure_cf))
    ELSE SeqToSet(available_pitches(local_ctx, local_ctx.next_measure_cf))

\* The buffer and the mark the claim describes for one run from the previous pitch
PassingRunResult(local_ctx, previous_pitch, run, direction) ==
    LET line == [k \in 1..(run.span - 1) |->
                   InKeyAt(DiatonicPos(previous_pitch) + direction * k)]
        duration == NoteDuration(local_ctx.rythmn_type)
        passing == [k \in 1..(run.span - 2) |->
                      [note |-> [pitch |-> line[k], duration |-> duration],
                       tone_type |-> "PASSING_TONE"]]
        target == line[run.span - 1]
    IN  IF run.crossing
          THEN [note_buffer |-> local_ctx.note_buffer \o passing,
                next_measure_mark |-> target,
                target |-> target]
        ELSE [note_buffer |-> local_ctx.note_buffer \o passing
                                \o <<[note |-> [pitch |-> target, duration |-> duration],
                                      tone_type |-> "HARMONIC_TONE"]>>,
              next_measure_mark |-> NONE,
              target |-> target]

\* The runs the claim expects from a context: those whose target is legal
ExpectedPassingRuns(local_ctx) ==
    LET previous_pitch == previous_latest_added_pitch(local_ctx)
        legal(run) == {r \in {PassingRunResult(local_ctx, previous_pitch, run, d) :
                                d \in {1, -1}} :
                         r.target \in LegalPassingTargets(local_ctx, run.crossing)}
    IN  {[note_buffer |-> r.note_buffer, next_measure_mark |-> r.next_measure_mark] :
           r \in UNION {legal(run) :
                          run \in PassingRuns(current_offset(local_ctx),
                                              local_ctx.rythmn_type)}}

\* C21: the Passing-Tone generator, where it applies, produces exactly the stepwise
\* runs listed for the rhythm and the beat (quarter notes: from beat 2 a 3rd, a 4th
\* or a 5th, from beat 3 a 3rd or a 4th, from beat 4 a 3rd; half notes: a 3rd from
\* beat 3; each upward and downward) whose target is a legal harmonic tone for the
\* relevant cantus firmus; the intermediate notes are tagged Passing, an in-measure
\* target Harmonic, and a target beyond the barline is stored only as
\* next_measure_mark, the buffer then totalling exactly one measure.
C21_PassingRuns ==
    (state.kind = "SearchingPassingNoteInMeasureState"
       /\ NonHarmonicApplicable(state.local_ctx))
      => LET r == PassingNextCtxs(state.local_ctx)
         IN  /\ r.error = "None"
             /\ {[note_buffer |-> r.ctxs[k].note_buffer,
                  next_measure_mark |-> r.ctxs[k].next_measure_mark] :
                   k \in 1..Len(r.ctxs)} = ExpectedPassingRuns(state.local_ctx)
             /\ Len(r.ctxs) = Cardinality(ExpectedPassingRuns(state.local_ctx))
             /\ \A k \in 1..Len(r.ctxs) :
                  /\ r.ctxs[k] = [state.local_ctx EXCEPT
                                    !.note_buffer = r.ctxs[k].note_buffer,
                                    !.next_measure_mark = r.ctxs[k].next_measure_mark,
                                    !.is_root_chord = r.ctxs[k].is_root_chord]
                  /\ r.ctxs[k].next_measure_mark # NONE
                       => SumDurations(r.ctxs[k].note_buffer) = MEASURE_TOTAL_DURATION

\* C21 witness: under quarter-note rhythm with the next note on beat 2, the generator
\* returns a run of a 5th into the next measure and a run that stays in the measure
C21_Witness ==
    /\ state.kind = "SearchingPassingNoteInMeasureState"
    /\ state.local_ctx.rythmn_type = "QUATER_NOTE"
    /\ current_offset(state.local_ctx) = 1
    /\ state.local_ctx.next_measure_mark = NONE
    /\ \E k \in 1..Len(PassingNextCtxs(state.local_ctx).ctxs) :
         LET ctx == PassingNextCtxs(state.local_ctx).ctxs[k]
         IN  /\ ctx.next_measure_mark # NONE
             /\ Len(ctx.note_buffer) = 4
             /\ \A j \in 2..4 : ctx.note_buffer[j].tone_type = "PASSING_TONE"
    /\ \E k \in 1..Len(PassingNextCtxs(state.local_ctx).ctxs) :
         PassingNextCtxs(state.local_ctx).ctxs[k].next_measure_mark = NONE

\* The upper and then the lower diatonic second of a pitch, those within voice range
NeighborsInRange(previous_pitch) ==
    SelectSeq(<<InKeyAt(DiatonicPos(previous_pitch) + 1),
                InKeyAt(DiatonicPos(previous_pitch) - 1)>>,
              LAMBDA p : p \in AVAILABLE_PITCHES_SET)

\* Whether the neighbor figure begun at the current offset ends in the measure
NeighborStaysInMeasure(local_ctx) ==
    local_ctx.rythmn_type = "QUATER_NOTE" /\ current_offset(local_ctx) \in {1, 2}

\* Whether it ends on the first beat of the next measure
NeighborCrossesBarline(local_ctx) ==
    \/ local_ctx.rythmn_type = "QUATER_NOTE" /\ current_offset(local_ctx) = 3
    \/ local_ctx.rythmn_type = "HALF_NOTE" /\ current_offset(local_ctx) = 2

\* The candidates the claim describes
ExpectedNeighborCtxs(local_ctx) ==
    LET previous_pitch == previous_latest_added_pitch(local_ctx)
        neighbors == NeighborsInRange(previous_pitch)
        duration == NoteDuration(local_ctx.rythmn_type)
        neighbor_note(k) == [note |-> [pitch |-> neighbors[k], duration |-> duration],
                             tone_type |-> "NEIGHBOR_TONE"]
    IN  IF NeighborStaysInMeasure(local_ctx)
          THEN [k \in 1..Len(neighbors) |->
                  [local_ctx EXCEPT
                     !.note_buffer =
                         @ \o <<neighbor_note(k),
                                [note |-> [pitch |-> previous_pitch,
                                           duration |-> duration],
                                 tone_type |-> "HARMONIC_TONE"]>>,
                     !.next_measure_mark = NONE]]
        ELSE IF previous_pitch \in LegalPassingTargets(local_ctx, TRUE)
          THEN [k \in 1..Len(neighbors) |->
                  [local_ctx EXCEPT
                     !.note_buffer = Append(@, neighbor_note(k)),
                     !.next_measure_mark = previous_pitch]]
        ELSE << >>

\* C22: the Neighbor-Tone generator, where it applies, tries the upper and then the
\* lower diatonic second of the previous pitch, those within voice range.  If the
\* figure stays in the measure (quarter notes, next note on beat 2 or 3) each
\* neighbor yields the two notes [neighbor tagged Neighbor, previous pitch tagged
\* Harmonic]; if it crosses the barline (quarter-note beat 4, half-note beat 3)
\* there are candidates only if the previous pitch is a legal harmonic tone over
\* the next cantus firmus (end-note rule in the last measure), and each appends
\* only the neighbor while the previous pitch becomes next_measure_mark.
C22_NeighborFigures ==
    (state.kind = "SearchingNeighborNoteInMeasureState"
       /\ NonHarmonicApplicable(state.local_ctx))
      => /\ NeighborStaysInMeasure(state.local_ctx)
              \/ NeighborCrossesBarline(state.local_ctx)
         /\ NeighborNextCtxs(state.local_ctx)
              = Return(ExpectedNeighborCtxs(state.local_ctx))

\* C22 witness: on quarter-note beat 4 the previous pitch is legal over the next
\* cantus firmus and both neighbors are offered, the previous pitch being marked
C22_Witness ==
    /\ state.kind = "SearchingNeighborNoteInMeasureState"
    /\ state.local_ctx.rythmn_type = "QUATER_NOTE"
    /\ current_offset(state.local_ctx) = 3
    /\ state.local_ctx.next_measure_mark = NONE
    /\ Len(NeighborNextCtxs(state.local_ctx).ctxs) = 2
    /\ NeighborNextCtxs(state.local_ctx).ctxs[1].next_measure_mark
         = previous_latest_added_pitch(state.local_ctx)
    /\ Len(NeighborNextCtxs(state.local_ctx).ctxs[1].note_buffer) = 4

\* The interval from a cantus firmus pitch to a counterpoint pitch is, octave-reduced,
\* a diminished fifth
IsDiminishedFifth(x, a) ==
    Abs(Num(a) - Num(x)) % 12 = 6 /\ Abs(StepsBetween(x, a)) % 7 = 4

\* The forbidden parallel pattern: the counterpoint goes from a to b while the cantus
\* firmus goes from x to y, both move, and the octave-reduced intervals are P1 -> P1,
\* P5 -> P5, d5 -> P5 or P5 -> d5
ForbiddenParallelPattern(x, y, a, b) ==
    /\ a # b /\ x # y
    /\ \/ IsPerfectOctave(x, a) /\ IsPerfectOctave(y, b)
       \/ IsPerfectFifth(x, a) /\ IsPerfectFifth(y, b)
       \/ IsDiminishedFifth(x, a) /\ IsPerfectFifth(y, b)
       \/ IsPerfectFifth(x, a) /\ IsDiminishedFifth(y, b)

\* The two voices move in opposite directions
ContraryMotion(x, y, a, b) ==
    /\ a # b /\ x # y
    /\ (Num(b) > Num(a)) # (Num(y) > Num(x))

\* Note i of the previous measure and note j of the buffer form the pattern and the
\* exception of the claim does not apply
OffendingPair(local_ctx, i, j) ==
    LET prev == local_ctx.previous_measure.annotated_notes
        cur == local_ctx.note_buffer
    IN  /\ prev[i].note.pitch # NONE
        /\ cur[j].note.pitch # NONE
        /\ ForbiddenParallelPattern(local_ctx.previous_cf, local_ctx.current_cf,
                                    prev[i].note.pitch, cur[j].note.pitch)
        /\ ~(/\ OnsetOf(cur, j) # 0
             /\ \/ ContraryMotion(local_ctx.previous_cf, local_ctx.current_cf,
                                  prev[i].note.pitch, cur[j].note.pitch)
                \/ prev[i].tone_type # "HARMONIC_TONE"
                \/ cur[j].tone_type # "HARMONIC_TONE")

\* The distance between the onsets of note i of the previous measure and note j of
\* the buffer
OnsetDistance(local_ctx, i, j) ==
    MEASURE_TOTAL_DURATION + OnsetOf(local_ctx.note_buffer, j)
      - OnsetOf(local_ctx.previous_measure.annotated_notes, i)

\* C23 as stated: the indirect-parallel check rejects a completed non-first measure
\* whenever a pitched note of the previous measure and a later pitched note of the
\* current measure form a forbidden parallel pattern with the cantus firmus, unless
\* the later note is not on the downbeat and the voices move in contrary motion or
\* one of the two notes is a non-harmonic tone.
C23_IndirectParallelsAnyDistance ==
    (state.kind = "ValidatingInMeasureState" /\ ~state.local_ctx.is_first_measure)
      => \A i \in 1..Len(state.local_ctx.previous_measure.annotated_notes),
            j \in 1..Len(state.local_ctx.note_buffer) :
           OffendingPair(state.local_ctx, i, j) => ~validate_interval(state.local_ctx)

\* C23 (amended): the same, for the pairs whose onsets are at most one whole note
\* (4 quarter units) apart.
C23_IndirectParallels ==
    (state.kind = "ValidatingInMeasureState" /\ ~state.local_ctx.is_first_measure)
      => \A i \in 1..Len(state.local_ctx.previous_measure.annotated_notes),
            j \in 1..Len(state.local_ctx.note_buffer) :
           (OffendingPair(state.local_ctx, i, j)
              /\ OnsetDistance(state.local_ctx, i, j) <= 4)
             => ~validate_interval(state.local_ctx)

\* C23 witness: a measure rejected for a pair that is not the pair at the barline,
\* the later note off the downbeat, while the pair at the barline is no violation
C23_Witness ==
    /\ state.kind = "ValidatingInMeasureState"
    /\ ~state.local_ctx.is_first_measure
    /\ ~DirectViolation(state.local_ctx)
    /\ ~validate_interval(state.local_ctx)
    /\ \E i \in 1..Len(state.local_ctx.previous_measure.annotated_notes),
          j \in 2..Len(state.local_ctx.note_buffer) :
         /\ OffendingPair(state.local_ctx, i, j)
         /\ OnsetDistance(state.local_ctx, i, j) <= 4

\* The onsets of the notes of the previous measure followed by the buffer
JoinedOnsets(local_ctx) ==
    OffsetNoteKeys(AnnotatedMeasure(local_ctx.previous_measure.annotated_notes
                                      \o local_ctx.note_buffer))

\* validate_interval finds a violation in a pair of notes whose onsets are the
\* given distance apart
IndirectViolationAtDistance(local_ctx, distances) ==
    \E realize_current_offset \in JoinedOnsets(local_ctx),
       realize_previous_offset \in JoinedOnsets(local_ctx) :
      /\ realize_current_offset - realize_previous_offset \in distances
      /\ IndirectViolationAt(local_ctx, realize_current_offset, realize_previous_offset)

StaffDistance(p, q) == Abs(DiatonicPos(q) - DiatonicPos(p))

\* Three consecutive pitches from index k span the given distance between the first
\* and the third, and neither adjacent pair is a 2nd
LeapingOutline(pitches, k, spans) ==
    /\ StaffDistance(pitches[k], pitches[k + 2]) \in spans
    /\ StaffDistance(pitches[k], pitches[k + 1]) # 1
    /\ StaffDistance(pitches[k + 1], pitches[k + 2]) # 1

\* C25: validate_melody_interval_7_9 rejects a completed measure whenever, among the
\* previous measure's last two notes followed by the note buffer, some three
\* consecutive pitches span a 7th or a 9th (or more) between the first and the third
\* without either adjacent pair being a 2nd.
C25_SeventhNinthNeedStep ==
    state.kind = "ValidatingInMeasureState"
      => ((\E k \in 1..(Len(MelodyPitches(state.local_ctx)) - 2) :
             LeapingOutline(MelodyPitches(state.local_ctx), k, {6} \cup 8..40))
            => ~validate_melody_interval_7_9(state.local_ctx))

\* C25 witness: a completed measure with three consecutive pitches spanning exactly
\* a 9th by two leaps, which validate_melody_interval_7_9 accepts
C25_Witness ==
    /\ state.kind = "ValidatingInMeasureState"
    /\ \E k \in 1..(Len(MelodyPitches(state.local_ctx)) - 2) :
         LeapingOutline(MelodyPitches(state.local_ctx), k, {8})
    /\ validate_melody_interval_7_9(state.local_ctx)

\* All notes of the completed measures, in order
RECURSIVE AllNotes(_)
AllNotes(measures) ==
    IF measures = << >> THEN << >>
    ELSE measures[1].annotated_notes \o AllNotes(Tail(measures))

\* C26: in every yielded realization each pair of consecutive sounding pitches of
\* the counterpoint, within a measure and across barlines, forms, ascending or
\* descending, one of the melodic intervals m2, M2, m3, M3, P4, P5, m6, P8: no pitch
\* is immediately repeated and there is no tritone, major sixth, seventh or leap
\* larger than an octave.
C26_MelodicIntervals ==
    state.kind = "EndState"
      => \A k \in 1..(Len(SoundingPitches) - 1) :
           LegalMelodicInterval(SoundingPitches[k], SoundingPitches[k + 1])

\* C26 witness: a yielded realization in which a measure ends on a passing or
\* neighbor tone, so that the next measure begins with the marked pitch, and which
\* holds a leap of an octave
C26_Witness ==
    /\ state.kind = "EndState"
    /\ \E k \in 1..(Len(CompletedMeasures) - 1) :
         LET notes == CompletedMeasures[k].annotated_notes
         IN  notes[Len(notes)].tone_type # "HARMONIC_TONE"
    /\ \E k \in 1..(Len(SoundingPitches) - 1) :
         Abs(Num(SoundingPitches[k + 1]) - Num(SoundingPitches[k])) = 12

\* Note k of a realization is a passing tone between its neighbours: both a diatonic
\* second away, in one direction, each a passing tone or a harmonic tone
PassingToneInLine(notes, k) ==
    /\ 1 < k /\ k < Len(notes)
    /\ notes[k - 1].note.pitch # NONE
    /\ notes[k + 1].note.pitch # NONE
    /\ notes[k - 1].tone_type \in {"PASSING_TONE", "HARMONIC_TONE"}
    /\ notes[k + 1].tone_type \in {"PASSING_TONE", "HARMONIC_TONE"}
    /\ DiatonicPos(notes[k].note.pitch) - DiatonicPos(notes[k - 1].note.pitch) \in {1, -1}
    /\ DiatonicPos(notes[k + 1].note.pitch) - DiatonicPos(notes[k].note.pitch)
         = DiatonicPos(notes[k].note.pitch) - DiatonicPos(notes[k - 1].note.pitch)

\* Note k of a realization is a neighbor tone: a diatonic second from the harmonic
\* tone before it, followed by that pitch again, tagged Harmonic
NeighborToneInLine(notes, k) ==
    /\ 1 < k /\ k < Len(notes)
    /\ notes[k - 1].note.pitch # NONE
    /\ notes[k - 1].tone_type = "HARMONIC_TONE"
    /\ notes[k + 1].tone_type = "HARMONIC_TONE"
    /\ StaffDistance(notes[k - 1].note.pitch, notes[k].note.pitch) = 1
    /\ notes[k + 1].note.pitch = notes[k - 1].note.pitch

\* C27: in every yielded realization every note tagged Passing or Neighbor is
\* approached from and left to its adjacent notes by a diatonic second, also across
\* a barline, where the following note is the pinned mark; a passing run keeps a
\* single direction between the two Harmonic-tagged notes it connects, and the note
\* after a Neighbor tone has the same pitch as the note before it.
C27_NonHarmonicTonesStepwise ==
    state.kind = "EndState"
      => \A k \in 1..Len(AllNotes(CompletedMeasures)) :
           /\ AllNotes(CompletedMeasures)[k].tone_type = "PASSING_TONE"
                => PassingToneInLine(AllNotes(CompletedMeasures), k)
           /\ AllNotes(CompletedMeasures)[k].tone_type = "NEIGHBOR_TONE"
                => NeighborToneInLine(AllNotes(CompletedMeasures), k)
           /\ AllNotes(CompletedMeasures)[k].tone_type
                \in {"HARMONIC_TONE", "PASSING_TONE", "NEIGHBOR_TONE"}

\* C27 witness: a yielded realization with a passing run of two notes that ends a
\* measure, its target pinned as the mark of the next one, and with a neighbor tone
C27_Witness ==
    /\ state.kind = "EndState"
    /\ \E k \in 1..(Len(CompletedMeasures) - 1) :
         LET notes == CompletedMeasures[k].annotated_notes
         IN  /\ Len(notes) = 4
             /\ notes[3].tone_type = "PASSING_TONE"
             /\ notes[4].tone_type = "PASSING_TONE"
    /\ \E k \in 1..Len(AllNotes(CompletedMeasures)) :
         AllNotes(CompletedMeasures)[k].tone_type = "NEIGHBOR_TONE"

\* A pitch sounds at or above a cantus firmus pitch, at most two octaves above it, at
\* an octave-reduced diatonic unison, 3rd, 5th or 6th
ConsonantAbove(cf, p) ==
    /\ Num(cf) <= Num(p)
    /\ DiatonicPos(p) - DiatonicPos(cf) \in 0..14
    /\ (DiatonicPos(p) - DiatonicPos(cf)) % 7 \in {0, 2, 4, 5}

\* A pitch lies a perfect interval of the given sizes in semitones above another
PerfectAbove(cf, p, semitones) ==
    /\ Num(p) - Num(cf) \in semitones
    /\ (DiatonicPos(p) - DiatonicPos(cf)) % 7 \in {0, 4}
    /\ DiatonicPos(p) >= DiatonicPos(cf)

\* C28: in every yielded realization every pitched note tagged Harmonic, first notes
\* of measures fixed by a cross-measure mark included, sounds at or above the cantus
\* firmus pitch of its own measure, at most two octaves above it, at an
\* octave-reduced diatonic unison, 3rd, 5th or 6th; the first sounding note is a
\* perfect unison, 5th, octave, 12th or 15th above the first cantus firmus pitch and
\* the final note a perfect unison, octave or 15th above the last.
C28_HarmonicTonesConsonant ==
    state.kind = "EndState"
      => /\ \A m \in 1..Len(CompletedMeasures) :
              \A k \in 1..Len(CompletedMeasures[m].annotated_notes) :
                LET an == CompletedMeasures[m].annotated_notes[k]
                IN  (an.tone_type = "HARMONIC_TONE" /\ an.note.pitch # NONE)
                      => ConsonantAbove(CantusFirmus[m], an.note.pitch)
         /\ PerfectAbove(CantusFirmus[1], SoundingPitches[1], {0, 7, 12, 19, 24})
         /\ PerfectAbove(CantusFirmus[Len(CantusFirmus)],
                         SoundingPitches[Len(SoundingPitches)], {0, 12, 24})

\* C28 witness: a yielded realization in which a measure after the first begins
\* with a pitch fixed by a mark (the measure before ends on a non-harmonic tone)
\* that is a 6th above its cantus firmus
C28_Witness ==
    /\ state.kind = "EndState"
    /\ \E m \in 2..Len(CompletedMeasures) :
         LET before == CompletedMeasures[m - 1].annotated_notes
             first == CompletedMeasures[m].annotated_notes[1]
         IN  /\ before[Len(before)].tone_type # "HARMONIC_TONE"
             /\ first.tone_type = "HARMONIC_TONE"
             /\ (DiatonicPos(first.note.pitch) - DiatonicPos(CantusFirmus[m])) % 7 = 5

\* The counterpoint enters measure m from the last note of the measure before in the
\* direction opposite to the cantus firmus
EntersInContraryMotion(m) ==
    LET before == LastPitch(CompletedMeasures[m - 1].annotated_notes)
        first == FirstPitch(CompletedMeasures[m].annotated_notes)
    IN  /\ before # NONE
        /\ Num(first) # Num(before)
        /\ (Num(first) > Num(before)) # (Num(CantusFirmus[m]) > Num(CantusFirmus[m - 1]))

\* Measure m begins on an octave-reduced perfect unison or perfect fifth with its
\* cantus firmus pitch, which differs from the one before
EntersPerfectInterval(m) ==
    LET first == FirstPitch(CompletedMeasures[m].annotated_notes)
    IN  /\ CantusFirmus[m] # CantusFirmus[m - 1]
        /\ first # NONE
        /\ \/ IsPerfectOctave(CantusFirmus[m], first)
           \/ IsPerfectFifth(CantusFirmus[m], first)

\* C29: in every yielded realization, whenever the cantus firmus changes pitch
\* across a barline and the first counterpoint note of the new measure forms an
\* octave-reduced perfect unison or perfect fifth with the new cantus firmus pitch,
\* the counterpoint has moved into that note in the direction opposite to the cantus
\* firmus; so the final note is approached in contrary motion when the last two
\* cantus firmus pitches differ.
C29_PerfectIntervalsByContraryMotion ==
    state.kind = "EndState"
      => \A m \in 2..Len(CompletedMeasures) :
           EntersPerfectInterval(m) => EntersInContraryMotion(m)

\* C29 witness: a yielded realization of three measures in which a middle measure
\* begins on a perfect fifth and the final note is reached, both in contrary motion
C29_Witness ==
    /\ state.kind = "EndState"
    /\ Len(CompletedMeasures) = 3
    /\ EntersPerfectInterval(2) /\ EntersInContraryMotion(2)
    /\ IsPerfectFifth(CantusFirmus[2], FirstPitch(CompletedMeasures[2].annotated_notes))
    /\ EntersPerfectInterval(3) /\ EntersInContraryMotion(3)

\* The octave-reduced staff distances above a cantus firmus pitch of the pitched
\* notes of a list that are tagged Harmonic (a 5th is 4, a 6th is 5)
HarmonicDegrees(notes, cf) ==
    {(DiatonicPos(notes[k].note.pitch) - DiatonicPos(cf)) % 7 :
       k \in {j \in 1..Len(notes) : /\ notes[j].tone_type = "HARMONIC_TONE"
                                    /\ notes[j].note.pitch # NONE}}

\* The Harmonic tones of a list fit a chord role: no 6th in root position, no 5th in
\* first inversion, neither while the role is undetermined
FitsChordRole(notes, cf, is_root_chord) ==
    CASE is_root_chord = "True" -> 5 \notin HarmonicDegrees(notes, cf)
      [] is_root_chord = "False" -> 4 \notin HarmonicDegrees(notes, cf)
      [] OTHER -> HarmonicDegrees(notes, cf) \cap {4, 5} = {}

\* The measure under construction fits its chord role, and no realized measure holds
\* Harmonic tones at both a 5th and a 6th, the first none at a 6th
ChordRoleRespected ==
    /\ state.local_ctx # NONE
         => FitsChordRole(state.local_ctx.note_buffer, state.local_ctx.current_cf,
                          state.local_ctx.is_root_chord)
    /\ \A m \in 1..Len(CompletedMeasures) :
         ~({4, 5} \subseteq HarmonicDegrees(CompletedMeasures[m].annotated_notes,
                                            CantusFirmus[m]))
    /\ Len(CompletedMeasures) >= 1
         => 5 \notin HarmonicDegrees(CompletedMeasures[1].annotated_notes, CantusFirmus[1])

\* A step within one measure keeps a chord role that is set
ChordRoleKept ==
    (/\ state.local_ctx # NONE
     /\ state'.local_ctx # NONE
     /\ Len(state'.global_ctx.completed_measures) = Len(CompletedMeasures)
     /\ state.local_ctx.is_root_chord # "None")
      => state'.local_ctx.is_root_chord = state.local_ctx.is_root_chord

\* C30: within one measure the chord role is committed at most once: once
\* is_root_chord is non-null it keeps that value in every descendant context of the
\* same measure, and every Harmonic tone added afterwards is compatible with it, so
\* no realized measure contains Harmonic-tagged notes at both an octave-reduced 5th
\* and an octave-reduced 6th above its cantus firmus pitch, and the first measure
\* (forced root position) contains no Harmonic-tagged 6th.
C30_ChordRoleCommittedOnce ==
    []ChordRoleRespected /\ [][ChordRoleKept]_vars

\* C30 witness: the harmonic generator is asked for the next note of a measure
\* committed to first inversion; a 5th above the cantus firmus lies in range, would
\* be offered were the role undetermined, and is in none of the candidates
C30_Witness ==
    /\ state.kind = "SearchingHarmonicNoteInMeasureState"
    /\ state.local_ctx.is_root_chord = "False"
    /\ 5 \in HarmonicDegrees(state.local_ctx.note_buffer, state.local_ctx.current_cf)
    /\ \E k \in 1..Len(available_harmonic_pitches_with_chord(
                         [state.local_ctx EXCEPT !.is_root_chord = "None"])) :
         available_harmonic_pitches_with_chord(
           [state.local_ctx EXCEPT !.is_root_chord = "None"])[k].chord = "True"
    /\ HarmonicNextCtxs(state.local_ctx).ctxs # << >>
    /\ \A k \in 1..Len(HarmonicNextCtxs(state.local_ctx).ctxs) :
         /\ HarmonicNextCtxs(state.local_ctx).ctxs[k].is_root_chord = "False"
         /\ 4 \notin HarmonicDegrees(HarmonicNextCtxs(state.local_ctx).ctxs[k].note_buffer,
                                      state.local_ctx.current_cf)

(***************************************************************************)
(* C31: the traversal raises no exception                                  *)
(***************************************************************************)

\* C31: for every cantus firmus of at least two pitches and every rhythm type, no
\* next_states call of the traversal raises: current_offset is never asked of a
\* full buffer, previous_latest_added_pitch always finds a pitch, the pattern
\* tables are only read at their offsets, the harmonic generator only meets a
\* mark it can place, and no construction assertion fails.  A violated rule shows
\* as an empty list of candidates or as a MeasurePrunedState or PrunedState.
C31_NoExceptionRaised == Len(CantusFirmus) >= 2 => raised = "None"

\* A measure after the first, entered from quarter notes, was searched through
\* and rejected by the validators, and nothing was raised on the way
C31_Witness ==
    /\ Len(CantusFirmus) >= 2
    /\ RythmnType = "QUATER_NOTE"
    /\ state.kind = "MeasurePrunedState"
    /\ ~state.local_ctx.is_first_measure
    /\ raised = "None"

(***************************************************************************)
(* Specification SpecSearchFair: SpecSearch consumed to the end.  The      *)
(* caller of final_states keeps asking for the next item, so a step of the *)
(* iteration that can be taken is taken: weak fairness of NextSearch.      *)
(***************************************************************************)

\* The iteration has ended: nothing is left to expand, or an exception ended it.
\* While it has not ended NextSearch is enabled: the node taken from the frontier
\* is a leaf for one of the three leaf actions, or it is expanded
SearchTerminated == pending = << >> \/ raised # "None"

\* Weak fairness of NextSearch, its enabling condition written out as
\* ~SearchTerminated
SpecSearchFair ==
    /\ InitSearch
    /\ [][NextSearch]_vars
    /\ ([]<>SearchTerminated \/ []<><<NextSearch>>_vars)

(***************************************************************************)
(* C32: the search terminates                                              *)
(***************************************************************************)

\* How far a state is into the piece: the completed measures, each worth more
\* than a full buffer, and the duration in the buffer
Progress(s) ==
    5 * Len(s.global_ctx.completed_measures)
      + (IF s.local_ctx = NONE THEN 0 ELSE total_note_buffer_duration(s.local_ctx))

\* The steps a state is from a leaf at the same progress
Phase(kind) ==
    CASE kind = "ChooseSearchState" -> 0
      [] kind \in TerminalKinds -> 2
      [] OTHER -> 1

\* The number of members of seq equal to x
Count(x, seq) == Cardinality({k \in 1..Len(seq) : seq[k] = x})

\* Two sequences with the same members the same number of times
SameItems(a, b) ==
    /\ Len(a) = Len(b)
    /\ \A k \in 1..Len(a) : Count(a[k], a) = Count(a[k], b)

\* An iteration that ended without an exception has yielded every End leaf of the
\* tree exactly once
EveryEndLeafYieldedOnce ==
    (pending = << >> /\ raised = "None") =>
      SameItems(yielded, Realizations(start_state(CantusFirmus, RythmnType)))

\* The children of the state just expanded are further into the piece: a
\* note-adding state yields contexts with a longer buffer, a validated measure
\* yields a state with exactly one more completed measure, at most
\* len(cantus_firmus), and every other child is nearer to a leaf at the same
\* progress
SearchProgressStep ==
    (state'.kind \notin TerminalKinds /\ raised' = "None" /\ pending' # pending) =>
      LET children == next_states(state').states
      IN  \A k \in 1..Len(children) :
            /\ Progress(children[k]) <= 5 * Len(CantusFirmus)
            /\ \/ Progress(children[k]) > Progress(state')
               \/ /\ Progress(children[k]) = Progress(state')
                  /\ Phase(children[k].kind) > Phase(state'.kind)
            /\ state'.kind \in SearchNoteKinds =>
                 total_note_buffer_duration(children[k].local_ctx)
                   > total_note_buffer_duration(state'.local_ctx)
            /\ (state'.kind = "ValidatingInMeasureState"
                  /\ children[k].kind # "MeasurePrunedState") =>
                 /\ Len(children[k].global_ctx.completed_measures)
                      = Len(state'.global_ctx.completed_measures) + 1
                 /\ Len(children[k].global_ctx.completed_measures)
                      <= Len(CantusFirmus)

\* C32: consuming final_states to the end terminates, in order or randomized:
\* every note-adding transition strictly increases the total duration of the
\* buffer, every successful measure validation adds exactly one completed measure,
\* never more than len(cantus_firmus), so the tree is finite and the iteration
\* comes to its end; an iteration that ended has yielded every End leaf of the
\* tree exactly once.
C32_SearchTerminates ==
    <>SearchTerminated /\ []EveryEndLeafYieldedOnce /\ [][SearchProgressStep]_vars

\* C32 witness: a randomized search of a cantus firmus of two pitches came to
\* its end and has yielded
C32_Witness ==
    /\ randomized
    /\ pending = << >>
    /\ raised = "None"
    /\ yielded # << >>
    /\ Len(CantusFirmus) >= 2

(***************************************************************************)
(* C33: the scores of the yielded realizations                             *)
(***************************************************************************)

\* AnnotatedMeasure.to_measure: the notes without their tone types
to_measure(am) == [k \in 1..Len(am.annotated_notes) |-> am.annotated_notes[k].note]

\* EndState.to_score: the measures of the counterpoint part (the cantus firmus
\* part is the input)
to_score(completed_measures) ==
    [m \in 1..Len(completed_measures) |-> to_measure(completed_measures[m])]

\* Two yielded realizations that render to the same score
SameScore(i, j) == to_score(yielded[i]) = to_score(yielded[j])

\* C33 as stated: no two yielded End states render to the same score; distinct
\* realizations always differ in the pitch-and-duration sequence of the
\* counterpoint, not merely in tone-type tags.
C33_NoDuplicateScore ==
    \A i, j \in 1..Len(yielded) : i < j => ~SameScore(i, j)

\* C33: no two yielded End states have the same annotated notes: distinct
\* realizations always differ in the pitch, the duration or the tone-type tag of a
\* note; under whole-note and half-note rhythm they differ in the
\* pitch-and-duration sequence, while under quarter-note rhythm two of them may
\* render to the same score.
C33_NoDuplicateRealization ==
    \A i, j \in 1..Len(yielded) :
      i < j =>
        /\ yielded[i] # yielded[j]
        /\ RythmnType \in {"WHOLE_NOTE", "HALF_NOTE"} => ~SameScore(i, j)

\* C33 witness: under quarter notes two yielded realizations render to the same
\* score and differ in a tone-type tag only
C33_Witness ==
    /\ RythmnType = "QUATER_NOTE"
    /\ \E i, j \in 1..Len(yielded) :
         /\ i < j
         /\ SameScore(i, j)
         /\ yielded[i] # yielded[j]

(***************************************************************************)
(* Specification SpecTwoLevel: the two-level engine, GlobalState           *)
(* (global_state.py) driving LocalMeasureState (local_measure_state.py),   *)
(* consumed through GlobalState.final_states(randomized = False).          *)
(* pending is the frontier of both levels.  The global level is drained in *)
(* order: a GenerateMeasureState pulls the MeasureEndStates of its measure *)
(* one at a time and the subtree of one is exhausted before the next is    *)
(* pulled, so the iteration works on the nodes with the most completed     *)
(* measures.  The local level is always randomized: final_states() is      *)
(* called with its default and SearchNoteState.next_states shuffles, so    *)
(* any node of the measure being searched may be taken next.               *)
(***************************************************************************)

\* The inputs of the two-level engine
TwoLevelInputs ==
    {<<<<PitchParse("C", 0, 4), PitchParse("A", 0, 3)>>, "WHOLE_NOTE">>,
     <<<<PitchParse("C", 0, 4), PitchParse("A", 0, 3)>>, "HALF_NOTE">>,
     <<<<PitchParse("G", 0, 5), PitchParse("B", 0, 3), PitchParse("C", 0, 4)>>,
       "WHOLE_NOTE">>,
     <<<<PitchParse("C", 0, 4)>>, "WHOLE_NOTE">>}

\* GlobalState.start_state
global_start_state(cantus_firmus, rythmn_type) ==
    State("GenerateMeasureState", new_global_context(cantus_firmus, rythmn_type), NONE)

InitTwoLevel ==
    /\ \E in \in TwoLevelInputs :
         /\ state = global_start_state(in[1], in[2])
         /\ pending = <<global_start_state(in[1], in[2])>>
    /\ randomized = FALSE
    /\ raised = "None"
    /\ yielded = << >>
    /\ pruned_seen = 0
    /\ NoInterleave

\* The states of the local level that _find_terminal_states expands
LocalSearchKinds == SearchNoteKinds \cup {"ChooseSearchState", "ValidatingInMeasureState"}

\* The members of pending the iteration may take next: the nodes of the subtree
\* the ordered global level is in, those with the most completed measures, any of
\* them within its measure
TwoLevelChoices ==
    {i \in 1..Len(pending) :
       \A j \in 1..Len(pending) :
         Len(pending[j].global_ctx.completed_measures)
           <= Len(pending[i].global_ctx.completed_measures)}

\* Mutant of ValidatingInMeasureState.next_states of the local level: the measure
\* is not validated
LocalValidatingInMeasureNextStates_unvalidated(s) ==
    Yields(<<State("MeasureEndState", s.global_ctx, s.local_ctx)>>)

\* ValidatingInMeasureState.next_states of the local level
LocalValidatingInMeasureNextStates(s) ==
    IF ~validate(s.local_ctx)
      THEN Yields(<<State("MeasurePrunedState", s.global_ctx, s.local_ctx)>>)
    ELSE Yields(<<State("MeasureEndState", s.global_ctx, s.local_ctx)>>)

\* next_states of a state of the local level; the order random.shuffle gives the
\* children of a SearchNoteState is immaterial, any node being taken next
local_next_states(s) ==
    CASE s.kind = "ChooseSearchState" -> ChooseSearchNextStates(s)
      [] s.kind \in SearchNoteKinds -> SearchNoteNextStates(s)
      [] s.kind = "ValidatingInMeasureState" -> LocalValidatingInMeasureNextStates(s)
      [] OTHER -> Raises("RuntimeError")

\* create_next_global_state of GenerateMeasureState.next_states
create_next_global_state(measure_end_state) ==
    LET new_global_ctx ==
            local_ctx_appended(measure_end_state.global_ctx, measure_end_state.local_ctx)
    IN  IF ~GlobalContextPostInit(new_global_ctx) THEN Raises("AssertionError")
        ELSE IF is_measures_fulfilled(new_global_ctx)
          THEN Yields(<<State("ValidatingAllMeasureState", new_global_ctx, NONE)>>)
        ELSE Yields(<<State("GenerateMeasureState", new_global_ctx, NONE)>>)

\* One node of the frontier is taken and the states r take its place
TwoLevelStep(i, r) ==
    /\ state' = pending[i]
    /\ IF r.error # "None"
         THEN raised' = r.error /\ pending' = pending
       ELSE raised' = raised /\ pending' = Replace(i, r.states)
    /\ UNCHANGED <<randomized, yielded, pruned_seen, interleave_vars>>

\* GenerateMeasureState.next_states starts the search of the next measure
GenerateMeasureState ==
    \E i \in TwoLevelChoices :
      /\ raised = "None"
      /\ pending[i].kind = "GenerateMeasureState"
      /\ \E r \in {Yields(<<State("ChooseSearchState", pending[i].global_ctx,
                                 new_local_measure_countext(pending[i].global_ctx))>>)} :
           TwoLevelStep(i, r)

\* LocalMeasureState._find_terminal_states expands a state of the measure
LocalFindTerminalStatesExpand ==
    \E i \in TwoLevelChoices :
      /\ raised = "None"
      /\ pending[i].kind \in LocalSearchKinds
      /\ \E r \in {local_next_states(pending[i])} : TwoLevelStep(i, r)

\* LocalMeasureState._find_terminal_states yields nothing for a MeasurePrunedState
LocalFindTerminalStatesMeasurePruned ==
    \E i \in TwoLevelChoices :
      /\ raised = "None"
      /\ pending[i].kind = "MeasurePrunedState"
      /\ TwoLevelStep(i, Yields(<< >>))

\* A MeasureEndState is yielded by the local final_states and mapped to the next
\* global state
GenerateMeasureStateYield ==
    \E i \in TwoLevelChoices :
      /\ raised = "None"
      /\ pending[i].kind = "MeasureEndState"
      /\ \E r \in {create_next_global_state(pending[i])} : TwoLevelStep(i, r)

\* ValidatingAllMeasureState.next_states of the global level
GlobalValidatingAllMeasureState ==
    \E i \in TwoLevelChoices :
      /\ raised = "None"
      /\ pending[i].kind = "ValidatingAllMeasureState"
      /\ \E r \in {ValidatingAllMeasureNextStates(pending[i])} : TwoLevelStep(i, r)

\* GlobalState._find_terminal_states yields an EndState and final_states passes
\* it on
GlobalFinalStatesYieldEnd ==
    \E i \in TwoLevelChoices :
      /\ raised = "None"
      /\ pending[i].kind = "EndState"
      /\ state' = pending[i]
      /\ yielded' = Append(yielded, pending[i].global_ctx.completed_measures)
      /\ pending' = Replace(i, << >>)
      /\ UNCHANGED <<raised, randomized, pruned_seen, interleave_vars>>

\* GlobalState._find_terminal_states yields a PrunedState and final_states
\* filters it out
GlobalFinalStatesFilterPruned ==
    \E i \in TwoLevelChoices :
      /\ raised = "None"
      /\ pending[i].kind = "PrunedState"
      /\ state' = pending[i]
      /\ pruned_seen' = pruned_seen + 1
      /\ pending' = Replace(i, << >>)
      /\ UNCHANGED <<raised, randomized, yielded, interleave_vars>>

NextTwoLevel ==
    \/ GenerateMeasureState
    \/ LocalFindTerminalStatesExpand
    \/ LocalFindTerminalStatesMeasurePruned
    \/ GenerateMeasureStateYield
    \/ GlobalValidatingAllMeasureState
    \/ GlobalFinalStatesYieldEnd
    \/ GlobalFinalStatesFilterPruned

SpecTwoLevel == InitTwoLevel /\ [][NextTwoLevel]_vars

(***************************************************************************)
(* C34: the order of the two-level engine with randomized = False          *)
(***************************************************************************)

\* A yielding step of the two-level engine: what has been yielded is the
\* beginning of the list of the realizations in generator order, the candidates
\* of every measure in the order next_ctxs returns them
TwoLevelYieldInOrder ==
    yielded' # yielded =>
      LET all == Realizations(start_state(CantusFirmus, RythmnType))
      IN  /\ Len(yielded') <= Len(all)
          /\ yielded' = SubSeq(all, 1, Len(yielded'))

\* C34: in the two-level engine final_states(randomized = False) involves no
\* random choice: the candidates of every measure are explored in the order the
\* generators return them, so every run on the same cantus firmus and rhythm type
\* yields the same sequence of realizations, that of the generator order.
C34_TwoLevelGeneratorOrder == [][TwoLevelYieldInOrder]_vars

\* C34 witness: a run with randomized = False has yielded first a realization
\* that is not the first one in generator order
C34_Witness ==
    /\ ~randomized
    /\ yielded # << >>
    /\ state.kind = "EndState"
    /\ yielded[1] # Realizations(start_state(CantusFirmus, RythmnType))[1]

(***************************************************************************)
(* C35: the two engines yield the same realizations                        *)
(***************************************************************************)

\* What the single-level engine (state.py) yields for the input
SingleLevelRealizations ==
    SeqToSet(Realizations(start_state(CantusFirmus, RythmnType)))

\* The two-level engine, fully consumed, has yielded the realizations of the
\* single-level engine; an exception ends it only for the cantus firmus of one
\* pitch, for which the single-level engine raises too
TwoLevelConsumed ==
    /\ (pending = << >> /\ raised = "None") =>
         SeqToSet(yielded) = SingleLevelRealizations
    /\ raised # "None" => Len(CantusFirmus) = 1

\* What the two-level engine yields is a realization of the single-level engine
TwoLevelYieldsSingleLevel ==
    yielded' # yielded => yielded'[Len(yielded')] \in SingleLevelRealizations

FrameOf(local_ctx) ==
    [previous_measure |-> local_ctx.previous_measure,
     previous_cf |-> local_ctx.previous_cf,
     current_cf |-> local_ctx.current_cf,
     next_measure_cf |-> local_ctx.next_measure_cf,
     rythmn_type |-> local_ctx.rythmn_type,
     is_first_measure |-> local_ctx.is_first_measure,
     is_last_measure |-> local_ctx.is_last_measure,
     is_next_last_measure |-> local_ctx.is_next_last_measure]

\* a is a beginning of b and b is longer
StrictPrefix(a, b) == Len(a) < Len(b) /\ SubSeq(b, 1, Len(a)) = a

\* A step from a note-adding state to one of the contexts its generator returned
GeneratorFrameStep ==
    (state.kind \in SearchNoteKinds /\ state' # state) =>
      /\ state'.kind = "ChooseSearchState"
      /\ state'.global_ctx = state.global_ctx
      /\ DOMAIN state'.local_ctx = DOMAIN state.local_ctx
      /\ FrameOf(state'.local_ctx) = FrameOf(state.local_ctx)
      /\ state'.local_ctx.note_buffer # state.local_ctx.note_buffer
      /\ state.kind \in {"SearchingHarmonicNoteInMeasureState"} \cup NonHarmonicKinds =>
           StrictPrefix(state.local_ctx.note_buffer, state'.local_ctx.note_buffer)

\* C36: every context a move generator returns differs from the generator's
\* input only in note_buffer, is_root_chord and next_measure_mark: the cantus
\* firmus pointers, the rhythm type, the measure flags and the previous measure
\* are those of the input; for the harmonic, passing and neighbor generators the
\* input's note_buffer is a strict prefix of the returned one.
C36_GeneratorFrame == [][GeneratorFrameStep]_vars

\* C36 witness: a context returned by the passing or neighbor generator in a
\* measure after the first: notes were appended to a non-empty buffer, the chord
\* role is set and a pitch is marked for the next measure
C36_Witness ==
    /\ state.kind = "ChooseSearchState"
    /\ ~state.local_ctx.is_first_measure
    /\ Len(state.local_ctx.note_buffer) >= 2
    /\ state.local_ctx.next_measure_mark # NONE
    /\ state.local_ctx.is_root_chord # ROOT_CHORD_NONE
    /\ state.local_ctx.previous_measure # NONE

(***************************************************************************)
(* C37: the rests of a realization                                         *)
(***************************************************************************)

\* The positions of the rests among the notes of a realization
RestPositions(notes) == {k \in 1..Len(notes) : notes[k].note.pitch = NONE}

\* C37: in every yielded realization a rest occurs only as the very first note of
\* the piece, the first note of the first measure, and only under quarter-note or
\* half-note rhythm; a whole-note realization contains no rest.
C37_RestOnlyAtTheStart ==
    state.kind = "EndState" =>
      /\ RestPositions(AllNotes(CompletedMeasures)) \subseteq {1}
      /\ RythmnType = "WHOLE_NOTE" => RestPositions(AllNotes(CompletedMeasures)) = { }
      /\ \A m \in 2..Len(CompletedMeasures) :
           RestPositions(CompletedMeasures[m].annotated_notes) = { }

\* C37 witness: a yielded half-note realization of three measures that begins
\* with a rest
C37_Witness ==
    /\ state.kind = "EndState"
    /\ RythmnType = "HALF_NOTE"
    /\ Len(CompletedMeasures) = 3
    /\ RestPositions(AllNotes(CompletedMeasures)) = {1}

(***************************************************************************)
(* my_project/model.py: Interval.name and Interval.parse on the text of a  *)
(* name, a sequence of characters such as <<"-", "d", "d", "1", "2">>.     *)
(***************************************************************************)

\* Largest octave and fifth move (from C4) of the pitches intervals are taken between
MaxIntervalOctave == 4
MaxIntervalFifth == 11

DIGITS == <<"0", "1", "2", "3", "4", "5", "6", "7", "8", "9">>

\* f"{n}" for n >= 0
RECURSIVE FormatInt(_)
FormatInt(n) ==
    IF n < 10 THEN <<DIGITS[n + 1]>>
    ELSE FormatInt(n \div 10) \o <<DIGITS[(n % 10) + 1]>>

\* int(num_str) on a non-empty run of digits
RECURSIVE ParseInt(_)
ParseInt(str) ==
    LET last == CHOOSE d \in 0..9 : DIGITS[d + 1] = str[Len(str)]
    IN  IF Len(str) = 1 THEN last
        ELSE 10 * ParseInt(SubSeq(str, 1, Len(str) - 1)) + last

\* "A" * k
Repeat(c, k) == [j \in 1..k |-> c]

\* Interval.name
IntervalName(i) ==
    LET step == IntervalStepOf(i)
        sgn == IF step >= 0 THEN << >> ELSE <<"-">>
        num == FormatInt(Abs(step) + 1)
        alter == IntervalAlterOf(i)
        alph == CASE alter = 0 -> <<"P">>
                  [] alter = 1 -> <<"M">>
                  [] alter = -1 -> <<"m">>
                  [] alter >= 2 -> Repeat("A", alter - 1)
                  [] OTHER -> Repeat("d", -alter - 1)
    IN  sgn \o alph \o num

\* The length of the longest prefix of str made of characters in chars
RECURSIVE RunLength(_, _)
RunLength(str, chars) ==
    IF str = << >> \/ str[1] \notin chars THEN 0
    ELSE 1 + RunLength(Tail(str), chars)

\* Interval.parse: the groups of ^([-]?)([PMm]|A+|d+)(\d+)$, then from_step_alter
IntervalParseName(name) ==
    LET sgn_len == IF name # << >> /\ name[1] = "-" THEN 1 ELSE 0
        after_sgn == SubSeq(name, sgn_len + 1, Len(name))
        qual_len == IF after_sgn = << >> THEN 0
                    ELSE IF after_sgn[1] \in {"P", "M", "m"} THEN 1
                    ELSE IF after_sgn[1] = "A" THEN RunLength(after_sgn, {"A"})
                    ELSE RunLength(after_sgn, {"d"})
        qual_str == SubSeq(after_sgn, 1, qual_len)
        num_str == SubSeq(after_sgn, qual_len + 1, Len(after_sgn))
        matched == /\ qual_len >= 1
                   /\ num_str # << >>
                   /\ \A j \in 1..Len(num_str) : \E d \in 1..10 : DIGITS[d] = num_str[j]
        sgn == IF sgn_len = 1 THEN -1 ELSE 1
        alter_val == CASE qual_str = <<"P">> -> 0
                       [] qual_str = <<"M">> -> 1
                       [] qual_str = <<"m">> -> -1
                       [] qual_str[1] = "A" -> Len(qual_str) + 1
                       [] OTHER -> -(Len(qual_str) + 1)
    IN  IF ~matched THEN INVALID_INTERVAL
        ELSE IF ParseInt(num_str) < 1 THEN INVALID_INTERVAL
        ELSE IntervalParse(sgn, alter_val, ParseInt(num_str))

IntervalPitches ==
    {Pitch(o, n) : o \in -MaxIntervalOctave..MaxIntervalOctave,
                   n \in -MaxIntervalFifth..MaxIntervalFifth}

\* tests/test_model.py: an interval is taken between two pitches; output collects
\* what from_step_alter, name and parse return for it.
InitInterval ==
    /\ \E base \in IntervalPitches, target \in IntervalPitches :
         state = [kind |-> "Interval", base |-> base, target |-> target,
                  i |-> IntervalOf(base, target)]
    /\ raised = "None"
    /\ randomized = FALSE
    /\ pending = << >>
    /\ yielded = << >>
    /\ pruned_seen = 0
    /\ NoInterleave

\* test_interval: Interval.from_step_alter(i.step(), i.alter())
test_interval ==
    /\ state.kind = "Interval"
    /\ Len(output) = 0
    /\ output' = <<FromStepAlter(IntervalStepOf(state.i), IntervalAlterOf(state.i))>>
    /\ UNCHANGED <<state, raised, randomized, pending, yielded, pruned_seen,
                   iterables, active_iterators, cursor>>

\* test_name_parse: i.name()
test_name ==
    /\ state.kind = "Interval"
    /\ Len(output) = 1
    /\ output' = Append(output, IntervalName(state.i))
    /\ UNCHANGED <<state, raised, randomized, pending, yielded, pruned_seen,
                   iterables, active_iterators, cursor>>

\* test_name_parse: Interval.parse(name)
test_parse ==
    /\ state.kind = "Interval"
    /\ Len(output) = 2
    /\ output' = Append(output, IntervalParseName(output[2]))
    /\ UNCHANGED <<state, raised, randomized, pending, yielded, pruned_seen,
                   iterables, active_iterators, cursor>>

NextInterval == test_interval \/ test_name \/ test_parse

SpecInterval == InitInterval /\ [][NextInterval]_vars

\* C38: for every interval i between two pitches, of any direction, quality and
\* octave displacement, Interval.from_step_alter(i.step(), i.alter()) equals i
\* and Interval.parse(i.name()) equals i.
C38_IntervalRoundTrip ==
    state.kind = "Interval" =>
        /\ Len(output) >= 1 => output[1] = state.i
        /\ Len(output) >= 3 => output[3] = state.i

\* A descending doubly diminished interval went through both round trips.
C38_Witness ==
    /\ state.kind = "Interval"
    /\ Len(output) = 3
    /\ Len(output[2]) >= 4
    /\ SubSeq(output[2], 1, 3) = <<"-", "d", "d">>
    /\ output[1] = state.i
    /\ output[3] = state.i

\* C39: every LocalMeasureContext and every search state constructed during a
\* search satisfies its construction-time assertions: no AssertionError is raised,
\* is_first_measure holds iff previous_cf is null iff previous_measure is null,
\* is_last_measure holds iff next_measure_cf is null, is_next_last_measure implies
\* a non-null next_measure_cf, the buffer's total duration is at most 4,
\* Harmonic/Passing/Neighbor states have a non-full buffer, Start-Note and End-Note
\* states an empty buffer (Start-Note also no mark), ValidatingInMeasure a full one.
C39_ConstructionAssertions ==
    /\ raised # "AssertionError"
    /\ state.local_ctx # NONE =>
         LET c == state.local_ctx
             total == SumDurations(c.note_buffer)
         IN  /\ c.is_first_measure <=> c.previous_cf = NONE
             /\ c.previous_cf = NONE <=> c.previous_measure = NONE
             /\ c.is_last_measure <=> c.next_measure_cf = NONE
             /\ c.is_next_last_measure => c.next_measure_cf # NONE
             /\ total <= 4
             /\ state.kind \in {"SearchingHarmonicNoteInMeasureState",
                                "SearchingPassingNoteInMeasureState",
                                "SearchingNeighborNoteInMeasureState"} => total < 4
             /\ state.kind \in {"SearchingStartNoteState", "SearchingEndNoteState"} =>
                  total = 0
             /\ state.kind = "SearchingStartNoteState" => c.next_measure_mark = NONE
             /\ state.kind = "ValidatingInMeasureState" => total = 4

\* An End-Note search state was constructed on an empty buffer with a mark pending,
\* in the last of three measures.
C39_Witness ==
    /\ state.kind = "SearchingEndNoteState"
    /\ state.local_ctx.next_measure_mark # NONE
    /\ state.local_ctx.note_buffer = << >>
    /\ Len(CantusFirmus) = 3
    /\ raised = "None"

\* A mark is pending only on a full or an empty buffer
MarkOnlyAtMeasureBoundary ==
    (state.local_ctx # NONE /\ state.local_ctx.next_measure_mark # NONE) =>
        SumDurations(state.local_ctx.note_buffer) \in {0, MEASURE_TOTAL_DURATION}

\* No mark in the first measure before its first note, nor in End or Pruned
NoMarkAtStartOrEnd ==
    /\ (/\ state.local_ctx # NONE
        /\ state.local_ctx.is_first_measure
        /\ state.local_ctx.note_buffer = << >>) =>
          /\ state.local_ctx.next_measure_mark = NONE
          /\ state.global_ctx.next_measure_mark = NONE
    /\ state.kind \in {"EndState", "PrunedState"} =>
          state.global_ctx.next_measure_mark = NONE

\* A step that puts the first notes into a measure entered with a mark pending
\* puts the marked pitch first and leaves no mark
MarkedPitchPlacedFirst ==
    (/\ state.local_ctx # NONE
     /\ state.local_ctx.next_measure_mark # NONE
     /\ state.local_ctx.note_buffer = << >>
     /\ state'.local_ctx # NONE
     /\ state'.local_ctx.note_buffer # << >>) =>
        /\ state'.local_ctx.note_buffer[1].note.pitch = state.local_ctx.next_measure_mark
        /\ state'.local_ctx.next_measure_mark = NONE

\* C40: a cross-measure mark is only pending at a measure boundary: in every
\* reachable state next_measure_mark is non-null only if the buffer is full or
\* empty; the first note placed in a measure entered with a pending mark is the
\* marked pitch, after which the mark is cleared; no mark is pending in the start
\* state of the first measure or in any End or Pruned state.
C40_MarkOnlyAtMeasureBoundary ==
    /\ [](MarkOnlyAtMeasureBoundary /\ NoMarkAtStartOrEnd)
    /\ [][MarkedPitchPlacedFirst]_vars

\* In a middle measure entered with a mark pending, the marked pitch has been placed
\* as the first note and the mark of the local context is cleared.
C40_Witness ==
    /\ state.local_ctx # NONE
    /\ state.global_ctx.next_measure_mark # NONE
    /\ ~state.local_ctx.is_last_measure
    /\ state.local_ctx.note_buffer # << >>
    /\ state.local_ctx.note_buffer[1].note.pitch = state.global_ctx.next_measure_mark
    /\ state.local_ctx.next_measure_mark = NONE
    /\ SumDurations(state.local_ctx.note_buffer) < MEASURE_TOTAL_DURATION

====
